---------------------------- MODULE Spec2Model ----------------------------
(***************************************************************************)
(* State-machine model of the Delphes reconstruction core:                 *)
(*   - Calorimeter   (src/modules/Calorimeter.cc)                          *)
(*   - FastJetFinder (src/modules/FastJetFinder.cc)                        *)
(*   - BTagging      (src/modules/BTagging.cc)                             *)
(*   - the DelphesPythia8 driver loop (src/classes/DelphesClasses.h,       *)
(*     lines 872-1329)                                                     *)
(* Real-valued quantities (eta, phi, energies, distances) are integers on  *)
(* a fixed grid; the unit is stated where the quantity is introduced.      *)
(***************************************************************************)
EXTENDS Integers, Sequences, FiniteSets, TLC

VARIABLES
  \* ---- Calorimeter ----
  caloPc,                 \* position inside the event cycle of the Calorimeter
  fEtaBins,               \* vector<double> fEtaBins (sorted, distinct)
  fPhiBins,               \* vector<vector<double>*> fPhiBins, parallel to fEtaBins
  sigmaCfg,               \* TRUE iff the resolution formulas evaluate to a non-zero sigma
  fTrackInputArray,       \* tracks of the event
  fParticleInputArray,    \* particles of the event
  fTowerHits,             \* vector<Long64_t> fTowerHits, each word as <<high 32 bits, low 32 bits>>
  fTrackECalFractions, fTrackHCalFractions,
  fTowerECalFractions, fTowerHCalFractions,
  fParticlePDGId,
  itTowerHits,            \* 1-based position of the scan loop in fTowerHits
  towerEtaPhi,            \* Long64_t towerEtaPhi
  fTower,                 \* the tower under construction (NoTower = null pointer)
  fTowerEdges,
  fTowerECalEnergy, fTowerHCalEnergy,
  fTrackECalEnergy, fTrackHCalEnergy,
  fTowerTrackHits, fTowerPhotonHits,
  fTowerTrackArray,       \* track numbers accumulated for the current tower
  fTowerOutputArray, fPhotonOutputArray,
  fEFlowTrackOutputArray, fEFlowTowerOutputArray,
  caloNew,                \* number of Candidates the Calorimeter took from the factory this event
  nullDeref,              \* TRUE once fTower was dereferenced while null
  caloEvent,              \* number of the event the Calorimeter is given (from 1)
  \* ---- FastJetFinder ----
  jetPc,                  \* position inside the event cycle of the FastJetFinder
  fKeepPileUp,            \* Int_t fKeepPileUp
  fInputArray,            \* the input Candidates of the event
  inputList,              \* vector<PseudoJet> inputList as filled by the input loop
  outputList,             \* vector<PseudoJet> outputList, the jets of the cluster sequence
  itOutputList,           \* 1-based position of the export loop in outputList
  detaMax, dphiMax,       \* Double_t detaMax, dphiMax
  fOutputArray,           \* the jets array
  RhoEtaRange,            \* the RhoEtaRange parameter of the card: eta1, eta2, eta1, eta2, ...
  fAreaAlgorithm,         \* Int_t fAreaAlgorithm; fAreaDefinition is non-null for 1..5
  fComputeRho,            \* Bool_t fComputeRho
  fEtaRangeMap,           \* map<Double_t, Double_t> fEtaRangeMap, as a function
  fRhoOutputArray,        \* the rho array
  \* ---- BTagging ----
  btagPc,                 \* position inside the event cycle of the BTagging modules
  fBitNumbers,            \* fBitNumber of each BTagging instance of the card, in run order
  instance,               \* the instance whose Process is running (1-based)
  fEfficiencyMap,         \* map<Int_t, DelphesFormula*> fEfficiencyMap: key -> value of the formula
  fPartonInputArray,      \* post-shower partons of the event
  fLHEPartonInputArray,   \* LHE partons of the event
  allParticles,           \* BTagging::fParticleInputArray, the generator record
  fJetInputArray,         \* the jets, with their flavour and BTag fields
  partonArray,            \* filtered partons (Null when the filter returns 0)
  LHEpartonArray,         \* filtered LHE partons (Null when the filter returns 0)
  fFilter,                \* fFilter holds a category-0 array made for an earlier event
  fFilterLHE,             \* the same for fFilterLHE
  itJet,                  \* 1-based position of the jet loop
  run,                    \* 1 for the run, 2 for its repetition from the same generator state
  rndSeed,                \* the seed of gRandom
  rndPos,                 \* number of draws made in the current run
  run1Jets,               \* the jets as run 1 left them
  run1Draws,              \* number of draws made in run 1
  \* ---- driver ----
  drvPc,                  \* position of main in its event loop
  interrupted,            \* static bool interrupted
  lheFile,                \* the events of the input LHE file
  commandLine,            \* Mjj_cut, skimFullyHadronic, startEvent, nEvent
  readerPos,              \* number of events Reader.readEvent() has returned
  eventCounter,
  errorCounter,
  startCounter,
  skippedCounter,
  pool,                   \* the Candidates of the factory, with the event that made each
  allParticleOutputArray, \* the exported arrays hold positions in the pool
  stableParticleOutputArray,
  partonOutputArray,
  LHEparticlesArray,
  pythiaEvent,            \* pythia->event
  treeEntries,            \* number of entries treeWriter->Fill() has made
  \* ---- Calorimeter: one hit word ----
  hitPc,                  \* position between the packing and the decoding of a hit
  hitSource,              \* etaBin, phiBin, isTrack, pdgCode, number of the hit to pack
  hitWord,                \* Long64_t towerHit, as << high 32 bits, low 32 bits >>
  hitDecoded              \* flags, number, phiBin, etaBin as the scan loop decodes them

caloVars == << caloPc, fEtaBins, fPhiBins, sigmaCfg, fTrackInputArray, fParticleInputArray,
               fTowerHits, fTrackECalFractions, fTrackHCalFractions, fTowerECalFractions,
               fTowerHCalFractions, fParticlePDGId, itTowerHits, towerEtaPhi, fTower,
               fTowerEdges, fTowerECalEnergy, fTowerHCalEnergy, fTrackECalEnergy,
               fTrackHCalEnergy, fTowerTrackHits, fTowerPhotonHits, fTowerTrackArray,
               fTowerOutputArray, fPhotonOutputArray, fEFlowTrackOutputArray,
               fEFlowTowerOutputArray, caloNew, nullDeref, caloEvent >>

rhoCfg == << RhoEtaRange, fAreaAlgorithm, fComputeRho, fEtaRangeMap >>

jetVars == << jetPc, fKeepPileUp, fInputArray, inputList, outputList, itOutputList,
              detaMax, dphiMax, fOutputArray, rhoCfg, fRhoOutputArray >>

filters == << fFilter, fFilterLHE >>

btagVars == << btagPc, fBitNumbers, instance, fEfficiencyMap, fPartonInputArray,
               fLHEPartonInputArray, allParticles, fJetInputArray, partonArray,
               LHEpartonArray, itJet, run, rndSeed, rndPos, run1Jets, run1Draws,
               filters >>

drvVars == << drvPc, interrupted, lheFile, commandLine, readerPos, eventCounter,
              errorCounter, startCounter, skippedCounter, pool, allParticleOutputArray,
              stableParticleOutputArray, partonOutputArray, LHEparticlesArray,
              pythiaEvent, treeEntries >>

hitVars == << hitPc, hitSource, hitWord, hitDecoded >>

vars == << caloVars, jetVars, btagVars, drvVars, hitVars >>

notCaloVars == << jetVars, btagVars, drvVars, hitVars >>
notJetVars  == << caloVars, btagVars, drvVars, hitVars >>
notBTagVars == << caloVars, jetVars, drvVars, hitVars >>
notDrvVars  == << caloVars, jetVars, btagVars, hitVars >>
notHitVars  == << caloVars, jetVars, btagVars, drvVars >>

(***************************************************************************)
(* Generic helpers                                                         *)
(***************************************************************************)
Abs(x) == IF x < 0 THEN -x ELSE x

Max2(a, b) == IF a > b THEN a ELSE b

\* the largest element of a finite set of integers, 0 for the empty set
MaxOf(S) == IF S = {} THEN 0 ELSE CHOOSE x \in S : \A y \in S : y <= x

RECURSIVE Pow2(_)
Pow2(n) == IF n = 0 THEN 1 ELSE 2 * Pow2(n - 1)

\* all sequences over S of length 0..n
SeqsUpTo(S, n) == UNION { [1..k -> S] : k \in 0..n }

\* element at a 0-based C++ index
At(s, i) == s[i + 1]

\* the ascending sequence of the elements of a finite set of integers
RECURSIVE SetToSortedSeq(_)
SetToSortedSeq(S) ==
  IF S = {} THEN << >>
  ELSE LET m == CHOOSE x \in S : \A y \in S : x <= y
       IN << m >> \o SetToSortedSeq(S \ {m})


\* bitwise OR / AND of two non-negative integers
RECURSIVE BitOr(_, _)
BitOr(a, b) ==
  IF a = 0 THEN b
  ELSE IF b = 0 THEN a
  ELSE Max2(a % 2, b % 2) + 2 * BitOr(a \div 2, b \div 2)

RECURSIVE BitAnd(_, _)
BitAnd(a, b) ==
  IF a = 0 \/ b = 0 THEN 0
  ELSE ((a % 2) * (b % 2)) + 2 * BitAnd(a \div 2, b \div 2)

(***************************************************************************)
(* Calorimeter: configuration (Calorimeter::Init)                          *)
(***************************************************************************)
\* Cards for the EtaPhiBins parameter: a flat list eta-list, phi-list, eta-list, ...
\* Unit of eta and phi: one grid step (the edges lie on even steps).
EtaPhiBinsCards ==
  { << <<0, 2, 4>>, <<0, 2, 4>> >>,
    << <<2, 0>>, <<0, 2, 4>>, <<4>>, <<4, 0>> >> }

SeqRange(s) == { s[i] : i \in DOMAIN s }

\* fBinMap[eta].insert(phi) for every pair of the card (lines 77-89)
BinMap(param) ==
  LET n    == Len(param) \div 2
      etas == UNION { SeqRange(param[2 * i - 1]) : i \in 1..n }
  IN [ e \in etas |->
         UNION { SeqRange(param[2 * i]) : i \in { j \in 1..n : e \in SeqRange(param[2 * j - 1]) } } ]

\* the map of sets turned into parallel vectors (lines 93-101)
EtaBinsOf(param) == SetToSortedSeq(DOMAIN BinMap(param))

PhiBinsOf(param) ==
  LET eb == EtaBinsOf(param)
  IN [ k \in 1..Len(eb) |-> SetToSortedSeq(BinMap(param)[eb[k]]) ]

\* EnergyFraction card: pdg code -> <<ecal fraction, hcal fraction>>; key 0 is the
\* default the module installs itself (line 109)
fFractionMap ==
  [ p \in {0, 11, 12, 22} |->
      CASE p = 0  -> << 0, 1 >>
        [] p = 11 -> << 1, 0 >>
        [] p = 22 -> << 1, 0 >>
        [] p = 12 -> << 0, 0 >> ]

\* fFractionMap.find(pdgCode), falling back to key 0 (lines 202-208, 243-250)
FractionOf(pdgCode) ==
  IF pdgCode \in DOMAIN fFractionMap THEN fFractionMap[pdgCode] ELSE fFractionMap[0]

fTimingEMin == 4

(***************************************************************************)
(* Calorimeter: bin lookup and hit words                                   *)
(***************************************************************************)
\* std::upper_bound: distance from begin() to the first element > v
UpperBound(s, v) ==
  LET idx == { i \in 0..(Len(s) - 1) : At(s, i) > v }
  IN IF idx = {} THEN Len(s) ELSE CHOOSE i \in idx : \A j \in idx : i <= j

\* std::lower_bound: distance from begin() to the first element >= v
LowerBound(s, v) ==
  LET idx == { i \in 0..(Len(s) - 1) : At(s, i) >= v }
  IN IF idx = {} THEN Len(s) ELSE CHOOSE i \in idx : \A j \in idx : i <= j

\* "outside" result of a lookup
NoBin == 0

\* eta bin in [1, size-1], or NoBin when the iterator is begin() or end()
EtaBinOf(etaBins, eta) ==
  LET d == LowerBound(etaBins, eta)
  IN IF d = 0 \/ d = Len(etaBins) THEN NoBin ELSE d

\* phi bin in [1, size-1] of the phi vector of the eta bin, or NoBin
PhiBinOf(phiBins, etaBin, phi) ==
  LET pb == At(phiBins, etaBin)
      d  == LowerBound(pb, phi)
  IN IF d = 0 \/ d = Len(pb) THEN NoBin ELSE d

\* (etaBin << 48) | (phiBin << 32) | (flags << 24) | number, kept as the pair
\* << bits 63..32, bits 31..0 >>
HitWord(etaBin, phiBin, flags, number) ==
  << BitOr(etaBin * Pow2(16), phiBin), BitOr(flags * Pow2(24), number) >>

\* the low word taken for the index, without the mask
HitNumberUnmasked(h) == h[2]

\* a shift that leaves nothing of the two bin numbers
HitEtaPhiShiftedOut(h) == (h[1] \div Pow2(16)) \div Pow2(16)

HitFlags(h)  == (h[2] \div Pow2(24)) % 256
HitNumber(h) == h[2] % Pow2(24)
HitEtaPhi(h) == h[1]
HitPhiBin(h) == h[1] % Pow2(16)
HitEtaBin(h) == (h[1] \div Pow2(16)) % Pow2(16)

\* signed 64-bit comparison of two hit words
HitLess(a, b) == a[1] < b[1] \/ (a[1] = b[1] /\ a[2] < b[2])

RECURSIVE InsertHit(_, _)
InsertHit(s, h) ==
  IF s = << >> THEN << h >>
  ELSE IF HitLess(h, Head(s)) THEN << h >> \o s
  ELSE << Head(s) >> \o InsertHit(Tail(s), h)

\* the hit vector left in the order in which the two input loops filled it
KeepOrder(s) == s

\* std::sort(fTowerHits.begin(), fTowerHits.end())
RECURSIVE SortHits(_)
SortHits(s) == IF s = << >> THEN << >> ELSE InsertHit(SortHits(Tail(s)), Head(s))

\* flags that take every particle for an electron or photon
HitFlagsOfAnyParticle(isTrack, pdgCode) == IF isTrack THEN 1 ELSE 2

\* flags of a hit: 1 for a track (line 227); for a particle, bit 1 set for
\* electrons and photons (lines 272-273)
HitFlagsOf(isTrack, pdgCode) ==
  IF isTrack THEN 1
  ELSE IF pdgCode = 11 \/ pdgCode = 22 THEN 2 ELSE 0

\* hits of the track loop (lines 195-233): the track at 0-based position number
TrackHit(etaBins, phiBins, track, number) ==
  LET etaBin == EtaBinOf(etaBins, track.Eta)
  IN IF etaBin = NoBin THEN << >>
     ELSE LET phiBin == PhiBinOf(phiBins, etaBin, track.Phi)
          IN IF phiBin = NoBin THEN << >>
             ELSE << HitWord(etaBin, phiBin, HitFlagsOf(TRUE, Abs(track.PID)), number) >>

\* hits of the particle loop (lines 238-278)
ParticleHit(etaBins, phiBins, particle, number) ==
  LET pdgCode == Abs(particle.PID)
      frac    == FractionOf(pdgCode)
      etaBin  == EtaBinOf(etaBins, particle.Eta)
  IN IF frac[1] = 0 /\ frac[2] = 0 THEN << >>
     ELSE IF etaBin = NoBin THEN << >>
     ELSE LET phiBin == PhiBinOf(phiBins, etaBin, particle.Phi)
              flags  == HitFlagsOf(FALSE, pdgCode)
          IN IF phiBin = NoBin THEN << >>
             ELSE << HitWord(etaBin, phiBin, flags, number) >>

RECURSIVE ConcatAll(_)
ConcatAll(ss) == IF ss = << >> THEN << >> ELSE Head(ss) \o ConcatAll(Tail(ss))

\* fTowerHits after both loops, before the sort
CollectedHits(etaBins, phiBins, tracks, particles) ==
  ConcatAll([ i \in 1..Len(tracks) |-> TrackHit(etaBins, phiBins, tracks[i], i - 1) ])
  \o ConcatAll([ i \in 1..Len(particles) |-> ParticleHit(etaBins, phiBins, particles[i], i - 1) ])

(***************************************************************************)
(* Calorimeter: the event (Calorimeter::Process, Calorimeter::FinalizeTower)*)
(***************************************************************************)
MaxParticles == 2

\* Tracks and particles an event is drawn from: positions on and off the edges of
\* the grid; E in energy units; PID 11/22 deposit in ECAL, 12 deposits nothing,
\* every other code takes the default fractions of key 0.
Track(eta, phi, e, pid) == [Eta |-> eta, Phi |-> phi, E |-> e, PID |-> pid]

TrackArrayVals ==
  { << >>,
    << Track(1, 1, 1, 211) >>,
    << Track(2, 2, 6, -11) >>,
    << Track(4, 1, 1, 211) >>,
    << Track(0, 3, 1, 211) >>,
    << Track(4, 1, 1, 211), Track(2, 2, 6, -11) >> }

ParticleVals ==
  { [Eta |-> 0, Phi |-> 1, E |-> 2, PID |-> 22],
    [Eta |-> 1, Phi |-> 0, E |-> 2, PID |-> 22],
    [Eta |-> 2, Phi |-> 2, E |-> 3, PID |-> -211],
    [Eta |-> 2, Phi |-> 1, E |-> 5, PID |-> 11],
    [Eta |-> 4, Phi |-> 4, E |-> 3, PID |-> 130],
    [Eta |-> 3, Phi |-> 1, E |-> 1, PID |-> 12],
    [Eta |-> 4, Phi |-> 1, E |-> 2, PID |-> 22] }

\* the null tower pointer, and a Candidate fresh from the factory
NoTower == [id |-> 0, PID |-> 0, comp |-> << >>, ecal_E_t |-> << >>, nTimes |-> 0,
            E |-> 0, Eem |-> 0, Ehad |-> 0, Edges |-> << 0, 0, 0, 0 >>, cloneOf |-> 0]

NewCandidate(id) == [NoTower EXCEPT !.id = id]

\* a smearing that ignores a zero resolution
LogNormalAlwaysSmeared(mean, smeared) ==
  IF mean > 0 THEN {1, mean, mean + 1} ELSE {0}

\* Calorimeter::LogNormal: the values the smearing can return for a mean, with the
\* resolution formula giving sigma = 0 (exp(log(mean)) = mean) or sigma > 0 (any
\* positive value, three of them kept)
LogNormal(mean, smeared) ==
  IF mean > 0
  THEN IF smeared THEN {1, mean, mean + 1} ELSE {mean}
  ELSE {0}

\* the difference without the floor at zero
ResidualUnclamped(smeared, trackEnergy) == smeared - trackEnergy

\* the energy left once the tracks are subtracted, lines 474-478
Residual(smeared, trackEnergy) ==
  IF smeared - trackEnergy < 0 THEN 0 ELSE smeared - trackEnergy

\* Calorimeter::FinalizeTower with the two smeared energies drawn: the finalized
\* tower and the four output arrays
FinalizeTower(tower, ecalDrawn, hcalDrawn) ==
  IF tower.id = 0
  THEN [tower |-> tower, towers |-> fTowerOutputArray, photons |-> fPhotonOutputArray,
        eflowTracks |-> fEFlowTrackOutputArray, eflowTowers |-> fEFlowTowerOutputArray,
        new |-> caloNew]
  ELSE
    LET energy   == ecalDrawn + hcalDrawn
        final    == [tower EXCEPT !.nTimes = Len(tower.ecal_E_t), !.E = energy,
                                  !.Eem = ecalDrawn, !.Ehad = hcalDrawn,
                                  !.Edges = fTowerEdges]
        ecalRest == Residual(ecalDrawn, fTrackECalEnergy)
        hcalRest == Residual(hcalDrawn, fTrackHCalEnergy)
        rest     == ecalRest + hcalRest
        clone    == [final EXCEPT !.id = caloNew + 1, !.comp = << >>, !.cloneOf = tower.id,
                                  !.E = rest, !.Eem = ecalRest, !.Ehad = hcalRest]
    IN [tower       |-> final,
        towers      |-> IF energy > 0 THEN Append(fTowerOutputArray, final)
                        ELSE fTowerOutputArray,
        photons     |-> IF energy > 0 /\ fTowerPhotonHits > 0 /\ fTowerTrackHits = 0
                        THEN Append(fPhotonOutputArray, final) ELSE fPhotonOutputArray,
        eflowTracks |-> fEFlowTrackOutputArray \o fTowerTrackArray,
        eflowTowers |-> IF rest > 0 THEN Append(fEFlowTowerOutputArray, clone)
                        ELSE fEFlowTowerOutputArray,
        new         |-> IF rest > 0 THEN caloNew + 1 ELSE caloNew]

\* the edges of a tower taken from the phi vector of the bin below
TowerEdgesOfLowerBin(etaBins, phiBins, etaBin, phiBin) ==
  << At(etaBins, etaBin - 1), At(etaBins, etaBin),
     At(At(phiBins, etaBin - 1), phiBin - 1), At(At(phiBins, etaBin - 1), phiBin) >>

\* fTowerEdges of the tower of bin (etaBin, phiBin), lines 306, 313-316
TowerEdges(etaBins, phiBins, etaBin, phiBin) ==
  << At(etaBins, etaBin - 1), At(etaBins, etaBin),
     At(At(phiBins, etaBin), phiBin - 1), At(At(phiBins, etaBin), phiBin) >>

\* the driver hands the module the arrays of one event
CaloNewEvent ==
  /\ UNCHANGED notCaloVars
  /\ caloPc = "idle"
  /\ fTrackInputArray' \in TrackArrayVals
  /\ fParticleInputArray' \in SeqsUpTo(ParticleVals, MaxParticles)
  /\ caloPc' = "process"
  /\ UNCHANGED << fEtaBins, fPhiBins, sigmaCfg, fTowerHits, fTrackECalFractions,
                  fTrackHCalFractions, fTowerECalFractions, fTowerHCalFractions,
                  fParticlePDGId, itTowerHits, towerEtaPhi, fTower, fTowerEdges,
                  fTowerECalEnergy, fTowerHCalEnergy, fTrackECalEnergy, fTrackHCalEnergy,
                  fTowerTrackHits, fTowerPhotonHits, fTowerTrackArray, fTowerOutputArray,
                  fPhotonOutputArray, fEFlowTrackOutputArray, fEFlowTowerOutputArray,
                  caloNew, nullDeref, caloEvent >>

\* number of events the Calorimeter is followed through
MaxCaloEvents == 2

\* the track and particle arrays of the events that follow the first one: an
\* empty event, a track alone in its tower, a photon alone in its tower
LaterEventVals ==
  { [tracks |-> << >>, particles |-> << >>],
    [tracks |-> << Track(1, 1, 1, 211) >>, particles |-> << >>],
    [tracks |-> << >>, particles |-> << [Eta |-> 1, Phi |-> 1, E |-> 5, PID |-> 22] >>] }

\* Calorimeter::Process, lines 182-287, for the arrays of an event: both input
\* loops and the sort, up to the head of the loop over the hits
CollectHits(tracks, particles) ==
  /\ fTrackECalFractions' = [ i \in 1..Len(tracks) |-> FractionOf(Abs(tracks[i].PID))[1] ]
  /\ fTrackHCalFractions' = [ i \in 1..Len(tracks) |-> FractionOf(Abs(tracks[i].PID))[2] ]
  /\ fTowerECalFractions' = [ i \in 1..Len(particles) |->
                                FractionOf(Abs(particles[i].PID))[1] ]
  /\ fTowerHCalFractions' = [ i \in 1..Len(particles) |->
                                FractionOf(Abs(particles[i].PID))[2] ]
  /\ fParticlePDGId' = [ i \in 1..Len(particles) |-> Abs(particles[i].PID) ]
  /\ fTowerHits' = SortHits(CollectedHits(fEtaBins, fPhiBins, tracks, particles))
  /\ towerEtaPhi' = 0
  /\ fTower' = NoTower
  /\ itTowerHits' = 1
  /\ caloPc' = "scan"
  /\ UNCHANGED << fEtaBins, fPhiBins, sigmaCfg, fTowerEdges, fTowerECalEnergy,
                  fTowerHCalEnergy, fTrackECalEnergy, fTrackHCalEnergy, fTowerTrackHits,
                  fTowerPhotonHits, fTowerTrackArray, nullDeref >>

\* Process is entered with the arrays of the first event
CaloCollectHits ==
  /\ UNCHANGED notCaloVars
  /\ caloPc = "process"
  /\ CollectHits(fTrackInputArray, fParticleInputArray)
  /\ UNCHANGED << fTrackInputArray, fParticleInputArray, fTowerOutputArray,
                  fPhotonOutputArray, fEFlowTrackOutputArray, fEFlowTowerOutputArray,
                  caloNew, caloEvent >>

\* the event is over: the framework empties the exported arrays and the pool
\* and Process is entered with the arrays of the next event; the members of
\* the module hold what the last event left in them
CaloLaterEvent ==
  /\ UNCHANGED notCaloVars
  /\ caloPc = "done"
  /\ caloEvent < MaxCaloEvents
  /\ caloEvent' = caloEvent + 1
  /\ \E event \in LaterEventVals :
       /\ fTrackInputArray' = event.tracks
       /\ fParticleInputArray' = event.particles
       /\ CollectHits(event.tracks, event.particles)
  /\ fTowerOutputArray' = << >>
  /\ fPhotonOutputArray' = << >>
  /\ fEFlowTrackOutputArray' = << >>
  /\ fEFlowTowerOutputArray' = << >>
  /\ caloNew' = 0

\* a tower that keeps the tracks of the tower before it
KeepTrackArray(towerTracks) == towerTracks

\* fTowerTrackArray->Clear() when a tower is created, line 327
ClearTrackArray(towerTracks) == << >>

\* one iteration of the loop over the sorted hits, lines 288-401
CaloScanHit ==
  /\ UNCHANGED notCaloVars
  /\ caloPc = "scan"
  /\ itTowerHits <= Len(fTowerHits)
  /\ LET towerHit  == fTowerHits[itTowerHits]
         flags     == HitFlags(towerHit)
         number    == HitNumber(towerHit)
         hitEtaPhi == HitEtaPhi(towerHit)
         switch    == towerEtaPhi # hitEtaPhi
         smearing  == switch /\ fTower.id # 0
     IN \E ecalDrawn \in (IF smearing THEN LogNormal(fTowerECalEnergy, sigmaCfg) ELSE {0}),
           hcalDrawn \in (IF smearing THEN LogNormal(fTowerHCalEnergy, sigmaCfg) ELSE {0}) :
          LET fin     == FinalizeTower(fTower, ecalDrawn, hcalDrawn)
              \* state after the "first hit of a tower" block, lines 293-328
              nNew    == IF switch THEN fin.new + 1 ELSE caloNew
              tower0  == IF switch THEN NewCandidate(fin.new + 1) ELSE fTower
              phiBin  == HitPhiBin(towerHit)
              etaBin  == HitEtaBin(towerHit)
              edges0  == IF switch
                         THEN TowerEdges(fEtaBins, fPhiBins, etaBin, phiBin)
                         ELSE fTowerEdges
              towE0   == IF switch THEN 0 ELSE fTowerECalEnergy
              towH0   == IF switch THEN 0 ELSE fTowerHCalEnergy
              trkE0   == IF switch THEN 0 ELSE fTrackECalEnergy
              trkH0   == IF switch THEN 0 ELSE fTrackHCalEnergy
              trkN0   == IF switch THEN 0 ELSE fTowerTrackHits
              phoN0   == IF switch THEN 0 ELSE fTowerPhotonHits
              trkArr0 == IF switch THEN ClearTrackArray(fTowerTrackArray)
                         ELSE fTowerTrackArray
              isTrack == BitAnd(flags, 1) # 0
              ecalEnergy == IF isTrack
                            THEN At(fTrackInputArray, number).E * At(fTrackECalFractions, number)
                            ELSE At(fParticleInputArray, number).E * At(fTowerECalFractions, number)
              hcalEnergy == IF isTrack
                            THEN At(fTrackInputArray, number).E * At(fTrackHCalFractions, number)
                            ELSE At(fParticleInputArray, number).E * At(fTowerHCalFractions, number)
          IN /\ towerEtaPhi' = hitEtaPhi
             /\ fTowerOutputArray' = (IF switch THEN fin.towers ELSE fTowerOutputArray)
             /\ fPhotonOutputArray' = (IF switch THEN fin.photons ELSE fPhotonOutputArray)
             /\ fEFlowTrackOutputArray' = (IF switch THEN fin.eflowTracks
                                           ELSE fEFlowTrackOutputArray)
             /\ fEFlowTowerOutputArray' = (IF switch THEN fin.eflowTowers
                                           ELSE fEFlowTowerOutputArray)
             /\ caloNew' = nNew
             /\ fTowerEdges' = edges0
             /\ IF isTrack
                THEN \* lines 331-368
                     /\ fTowerTrackHits' = trkN0 + 1
                     /\ fTrackECalEnergy' = trkE0 + ecalEnergy
                     /\ fTrackHCalEnergy' = trkH0 + hcalEnergy
                     /\ fTowerTrackArray' = Append(trkArr0, number)
                     /\ fTower' = tower0
                     /\ fTowerPhotonHits' = phoN0
                     /\ fTowerECalEnergy' = towE0
                     /\ fTowerHCalEnergy' = towH0
                     /\ UNCHANGED nullDeref
                ELSE \* lines 370-400
                     /\ fTowerPhotonHits' = (IF BitAnd(flags, 2) # 0 THEN phoN0 + 1 ELSE phoN0)
                     /\ fTowerECalEnergy' = towE0 + ecalEnergy
                     /\ fTowerHCalEnergy' = towH0 + hcalEnergy
                     /\ IF tower0.id = 0
                        THEN /\ nullDeref' = TRUE
                             /\ fTower' = tower0
                        ELSE /\ UNCHANGED nullDeref
                             /\ fTower' =
                                  [tower0 EXCEPT
                                     !.ecal_E_t = IF ecalEnergy > fTimingEMin
                                                  THEN Append(@, ecalEnergy) ELSE @,
                                     !.PID = At(fParticlePDGId, number),
                                     !.comp = Append(@, number)]
                     /\ fTowerTrackHits' = trkN0
                     /\ fTrackECalEnergy' = trkE0
                     /\ fTrackHCalEnergy' = trkH0
                     /\ fTowerTrackArray' = trkArr0
  /\ itTowerHits' = itTowerHits + 1
  /\ UNCHANGED << caloPc, fEtaBins, fPhiBins, sigmaCfg, fTrackInputArray, fParticleInputArray,
                  fTowerHits, fTrackECalFractions, fTrackHCalFractions, fTowerECalFractions,
                  fTowerHCalFractions, fParticlePDGId, caloEvent >>

\* the loop is over: the last tower is finalized, lines 403-404
CaloFinalizeLast ==
  /\ UNCHANGED notCaloVars
  /\ caloPc = "scan"
  /\ itTowerHits > Len(fTowerHits)
  /\ \E ecalDrawn \in (IF fTower.id # 0 THEN LogNormal(fTowerECalEnergy, sigmaCfg) ELSE {0}),
        hcalDrawn \in (IF fTower.id # 0 THEN LogNormal(fTowerHCalEnergy, sigmaCfg) ELSE {0}) :
       LET fin == FinalizeTower(fTower, ecalDrawn, hcalDrawn)
       IN /\ fTower' = fin.tower
          /\ fTowerOutputArray' = fin.towers
          /\ fPhotonOutputArray' = fin.photons
          /\ fEFlowTrackOutputArray' = fin.eflowTracks
          /\ fEFlowTowerOutputArray' = fin.eflowTowers
          /\ caloNew' = fin.new
  /\ caloPc' = "done"
  /\ UNCHANGED << fEtaBins, fPhiBins, sigmaCfg, fTrackInputArray, fParticleInputArray,
                  fTowerHits, fTrackECalFractions, fTrackHCalFractions, fTowerECalFractions,
                  fTowerHCalFractions, fParticlePDGId, itTowerHits, towerEtaPhi, fTowerEdges,
                  fTowerECalEnergy, fTowerHCalEnergy, fTrackECalEnergy, fTrackHCalEnergy,
                  fTowerTrackHits, fTowerPhotonHits, fTowerTrackArray, nullDeref,
                  caloEvent >>

\* the module after Calorimeter::Calorimeter and Calorimeter::Init, for one of the cards
CaloInit ==
  /\ caloPc = "idle"
  /\ \E card \in EtaPhiBinsCards :
       /\ fEtaBins = EtaBinsOf(card)
       /\ fPhiBins = PhiBinsOf(card)
  /\ sigmaCfg \in BOOLEAN
  /\ fTrackInputArray = << >>
  /\ fParticleInputArray = << >>
  /\ fTowerHits = << >>
  /\ fTrackECalFractions = << >>
  /\ fTrackHCalFractions = << >>
  /\ fTowerECalFractions = << >>
  /\ fTowerHCalFractions = << >>
  /\ fParticlePDGId = << >>
  /\ itTowerHits = 1
  /\ towerEtaPhi = 0
  /\ fTower = NoTower
  /\ fTowerEdges = << 0, 0, 0, 0 >>
  /\ fTowerECalEnergy = 0
  /\ fTowerHCalEnergy = 0
  /\ fTrackECalEnergy = 0
  /\ fTrackHCalEnergy = 0
  /\ fTowerTrackHits = 0
  /\ fTowerPhotonHits = 0
  /\ fTowerTrackArray = << >>
  /\ fTowerOutputArray = << >>
  /\ fPhotonOutputArray = << >>
  /\ fEFlowTrackOutputArray = << >>
  /\ fEFlowTowerOutputArray = << >>
  /\ caloNew = 0
  /\ nullDeref = FALSE
  /\ caloEvent = 1

CaloNext ==
  \/ CaloNewEvent
  \/ CaloCollectHits
  \/ CaloScanHit
  \/ CaloFinalizeLast
  \/ CaloLaterEvent

(***************************************************************************)
(* Calorimeter: properties                                                 *)
(***************************************************************************)
\* the hits of track number n (0-based), and of particle number n
TrackHitsOf(n) ==
  { h \in SeqRange(fTowerHits) : BitAnd(HitFlags(h), 1) = 1 /\ HitNumber(h) = n }

ParticleHitsOf(n) ==
  { h \in SeqRange(fTowerHits) : BitAnd(HitFlags(h), 1) = 0 /\ HitNumber(h) = n }

\* a particle leaves energy in the calorimeter
Deposits(particle) ==
  FractionOf(Abs(particle.PID))[1] # 0 \/ FractionOf(Abs(particle.PID))[2] # 0

\* the input items of the event with their hits: tracks, and depositing particles
CaloItems ==
  { [c |-> fTrackInputArray[i], hits |-> TrackHitsOf(i - 1)] : i \in 1..Len(fTrackInputArray) }
  \cup
  { [c |-> fParticleInputArray[i], hits |-> ParticleHitsOf(i - 1)] :
      i \in { j \in 1..Len(fParticleInputArray) : Deposits(fParticleInputArray[j]) } }

\* the hits of the event have just been collected and sorted; the scan that
\* follows reads them and leaves them and the input arrays as they are
CaloBinned == caloPc = "scan" /\ itTowerHits = 1

\* v lies in the half-open range (first edge, last edge] of an edge vector
InLeftOpenRange(edges, v) == Len(edges) > 0 /\ edges[1] < v /\ v <= edges[Len(edges)]

\* v lies in the half-open range [first edge, last edge) of an edge vector
InRightOpenRange(edges, v) == Len(edges) > 0 /\ edges[1] <= v /\ v < edges[Len(edges)]

ParticleInTowers(n) ==
  \E arr \in {fTowerOutputArray, fPhotonOutputArray, fEFlowTowerOutputArray} :
    \E t \in SeqRange(arr) : n \in SeqRange(t.comp)

TrackInEFlow(n) == n \in SeqRange(fEFlowTrackOutputArray)

LastEtaEdge == fEtaBins[Len(fEtaBins)]

MaxJetInputs == 3

\* Input Candidates of the jet finder.  Eta in grid steps; Phi in eighths of 2 pi;
\* PT in GeV.
JetInputVals ==
  { [Eta |-> 0, Phi |-> 0,  IsPU |-> 0, PT |-> 200],
    [Eta |-> 2, Phi |-> 3,  IsPU |-> 0, PT |-> 100],
    [Eta |-> 1, Phi |-> -3, IsPU |-> 1, PT |-> 99],
    [Eta |-> 3, Phi |-> 0,  IsPU |-> 1, PT |-> 201] }

PhiPeriod == 8

\* TVector2::Phi_mpi_pi as used by TLorentzVector::DeltaPhi: into [-pi, pi)
DeltaPhi(phi1, phi2) ==
  LET d == phi1 - phi2
  IN IF 2 * d >= PhiPeriod THEN d - PhiPeriod
     ELSE IF 2 * d < -PhiPeriod THEN d + PhiPeriod
     ELSE d

\* the input loop, lines 216-234: the pseudojets of the Candidates from position i
\* (1-based) on, number being the next user index.  A pseudojet carries the
\* momentum it was built from (Eta, Phi, PT; from = 0-based position of that
\* Candidate in fInputArray) and its user index.
RECURSIVE ProjectInputs(_, _, _, _)
ProjectInputs(input, keepPileUp, i, number) ==
  IF i > Len(input) THEN << >>
  ELSE IF keepPileUp = 0 /\ input[i].IsPU > 0
       THEN ProjectInputs(input, keepPileUp, i + 1, number)
       ELSE << [Eta |-> input[i].Eta, Phi |-> input[i].Phi, PT |-> input[i].PT,
                from |-> i - 1, user_index |-> number] >>
            \o ProjectInputs(input, keepPileUp, i + 1, number + 1)

\* The clustering library (external): sorted_by_pt(sequence->inclusive_jets(ptmin))
\* is any list of disjoint non-empty groups of the pseudojets, each group a jet
\* whose axis (Eta, Phi) is that of one of its constituents and whose transverse
\* momentum is the sum of those of its constituents, in order of decreasing
\* transverse momentum.
RECURSIVE SumPT(_, _)
SumPT(pseudojets, group) ==
  IF group = {} THEN 0
  ELSE LET i == CHOOSE x \in group : TRUE
       IN pseudojets[i].PT + SumPT(pseudojets, group \ {i})

JetGroupLists(n) ==
  { g \in SeqsUpTo((SUBSET (1..n)) \ { {} }, n) :
      \A i, j \in DOMAIN g : i # j => g[i] \cap g[j] = {} }

ClusterSequences(pseudojets) ==
  UNION { { [ k \in DOMAIN g |-> [cons |-> g[k], Eta |-> pseudojets[ax[k]].Eta,
                                  Phi |-> pseudojets[ax[k]].Phi,
                                  perp |-> SumPT(pseudojets, g[k])] ] :
              ax \in { a \in [DOMAIN g -> DOMAIN pseudojets] : \A k \in DOMAIN g : a[k] \in g[k] } } :
          g \in { h \in JetGroupLists(Len(pseudojets)) :
                    \A i, j \in DOMAIN h :
                      i < j => SumPT(pseudojets, h[i]) >= SumPT(pseudojets, h[j]) } }

\* The substructure library (external): what the trimmer and the N-subjettiness
\* calculators can return for a jet: the mass of the trimmed jet (negative for a
\* space-like sum), the masses of its pieces and << tau1, tau2, tau3 >>
SubStructureOutcomes ==
  { [m |-> -1,  pieces |-> << 0 >>,           tau |-> << 0, 0, 0 >>],
    [m |-> 80,  pieces |-> << 20, 10 >>,      tau |-> << 5, 2, 1 >>],
    [m |-> 120, pieces |-> << 30, 20, 10 >>,  tau |-> << 6, 3, 1 >>],
    [m |-> 150, pieces |-> << 100, 20, 10 >>, tau |-> << 7, 4, 2 >>] }

\* the substructure fields of a Candidate fresh from the factory; written is the
\* set of the fields the module assigned
NoSubStructure ==
  [TrimmedMass |-> 0, NSubJets |-> 0, MassDrop |-> 0, Tau1 |-> 0, Tau2 |-> 0,
   Tau3 |-> 0, WTag |-> 0, TopTag |-> 0, HTag |-> 0, written |-> {}]

\* the gate that is open for jets at the threshold as well
SubStructureGateInclusive(perp) == perp >= 200

\* if (itOutputList->perp()>200), line 305
SubStructureGate(perp) == perp > 200

\* lines 305-374: the substructure fields of a jet of transverse momentum perp
\* for which the library returns outcome; MassDrop in units of 0.001
SubStructure(perp, outcome) ==
  IF ~SubStructureGate(perp) THEN NoSubStructure
  ELSE
    LET trimmedMass == IF outcome.m < 0 THEN 0 ELSE outcome.m
        largest     == MaxOf(SeqRange(outcome.pieces) \cup {0})
        massdrop    == IF trimmedMass # 0 THEN (largest * 1000) \div trimmedMass ELSE 1000
        wtag        == massdrop < 400 /\ 60 < trimmedMass /\ trimmedMass < 120
        toptag      == Len(outcome.pieces) >= 3 /\ 140 < trimmedMass /\ trimmedMass < 230
        htag        == massdrop < 400 /\ 100 < trimmedMass /\ trimmedMass < 140
    IN [TrimmedMass |-> trimmedMass, NSubJets |-> Len(outcome.pieces),
        MassDrop |-> massdrop, Tau1 |-> outcome.tau[1], Tau2 |-> outcome.tau[2],
        Tau3 |-> outcome.tau[3],
        WTag |-> IF wtag THEN 1 ELSE 0, TopTag |-> IF toptag THEN 1 ELSE 0,
        HTag |-> IF htag THEN 1 ELSE 0,
        written |-> {"TrimmedMass", "NSubJets", "MassDrop", "Tau1", "Tau2", "Tau3"}
                      \cup (IF wtag THEN {"WTag"} ELSE {})
                      \cup (IF toptag THEN {"TopTag"} ELSE {})
                      \cup (IF htag THEN {"HTag"} ELSE {})]

\* the driver hands the module the input array of one event
JetNewEvent ==
  /\ UNCHANGED notJetVars
  /\ jetPc = "idle"
  /\ fInputArray' \in SeqsUpTo(JetInputVals, MaxJetInputs)
  /\ jetPc' = "process"
  /\ UNCHANGED << fKeepPileUp, inputList, outputList, itOutputList, detaMax, dphiMax,
                  fOutputArray, rhoCfg, fRhoOutputArray >>

\* FastJetFinder::Init, lines 79-87: the pairs of the card stored one after the
\* other under the key eta1; pairs is the number of pairs read
RECURSIVE EtaRangeMap(_, _)
EtaRangeMap(param, pairs) ==
  IF pairs = 0 THEN << >>
  ELSE LET before == EtaRangeMap(param, pairs - 1)
           eta1   == param[2 * pairs - 1]
       IN [ k \in DOMAIN before \cup {eta1} |->
              IF k = eta1 THEN param[2 * pairs] ELSE before[k] ]

\* fAreaDefinition is non-null, lines 120-142
HasAreaDefinition(areaAlgorithm) == areaAlgorithm \in 1..5

\* the rho Candidates of lines 246-262, in the order of the keys of the map;
\* the value the estimator returns is left out
RhoCandidates(computeRho, areaAlgorithm, etaRangeMap) ==
  IF computeRho /\ HasAreaDefinition(areaAlgorithm)
  THEN LET keys == SetToSortedSeq(DOMAIN etaRangeMap)
       IN [ i \in 1..Len(keys) |-> [Edges |-> << keys[i], etaRangeMap[keys[i]] >>] ]
  ELSE << >>

\* FastJetFinder::Process, lines 211-270: input loop, clustering, start of the export
JetCluster ==
  /\ UNCHANGED notJetVars
  /\ jetPc = "process"
  /\ inputList' = ProjectInputs(fInputArray, fKeepPileUp, 1, 0)
  /\ outputList' \in ClusterSequences(inputList')
  /\ detaMax' = 0
  /\ dphiMax' = 0
  /\ itOutputList' = 1
  /\ fRhoOutputArray' = RhoCandidates(fComputeRho, fAreaAlgorithm, fEtaRangeMap)
  /\ jetPc' = "export"
  /\ UNCHANGED << fKeepPileUp, fInputArray, fOutputArray, rhoCfg >>

\* the constituent loop of one jet, lines 281-293, from constituent list cs on:
\* << detaMax, dphiMax, composition >> after it
RECURSIVE ConstituentLoop(_, _, _, _, _)
ConstituentLoop(jet, cs, deta0, dphi0, comp0) ==
  IF cs = << >> THEN << deta0, dphi0, comp0 >>
  ELSE LET constituent == At(fInputArray, Head(cs).user_index)
           deta == Abs(jet.Eta - constituent.Eta)
           dphi == Abs(DeltaPhi(jet.Phi, constituent.Phi))
       IN ConstituentLoop(jet, Tail(cs),
                          IF deta > deta0 THEN deta ELSE deta0,
                          IF dphi > dphi0 THEN dphi ELSE dphi0,
                          Append(comp0, Head(cs).user_index))

\* sequence->constituents(jet): the pseudojets of the group, in input order
ConstituentsOf(jet) == [ k \in 1..Cardinality(jet.cons) |->
                           inputList[CHOOSE i \in jet.cons :
                                       Cardinality({ j \in jet.cons : j < i }) = k - 1] ]

\* one iteration of the loop over the jets, lines 271-376
JetExport ==
  /\ UNCHANGED notJetVars
  /\ jetPc = "export"
  /\ itOutputList <= Len(outputList)
  /\ LET jet == outputList[itOutputList]
         res == ConstituentLoop(jet, ConstituentsOf(jet), detaMax, dphiMax, << >>)
     IN /\ detaMax' = res[1]
        /\ dphiMax' = res[2]
        /\ \E outcome \in (IF SubStructureGate(jet.perp) THEN SubStructureOutcomes
                            ELSE { CHOOSE o \in SubStructureOutcomes : TRUE }) :
             fOutputArray' = Append(fOutputArray,
                                    [Eta |-> jet.Eta, Phi |-> jet.Phi, PT |-> jet.perp,
                                     comp |-> res[3],
                                     DeltaEta |-> res[1], DeltaPhi |-> res[2],
                                     pseudojets |-> ConstituentsOf(jet),
                                     sub |-> SubStructure(jet.perp, outcome)])
  /\ itOutputList' = itOutputList + 1
  /\ UNCHANGED << jetPc, fKeepPileUp, fInputArray, inputList, outputList, rhoCfg,
                  fRhoOutputArray >>

\* the loop is over, lines 378-381
JetFinish ==
  /\ UNCHANGED notJetVars
  /\ jetPc = "export"
  /\ itOutputList > Len(outputList)
  /\ jetPc' = "done"
  /\ UNCHANGED << fKeepPileUp, fInputArray, inputList, outputList, itOutputList,
                  detaMax, dphiMax, fOutputArray, rhoCfg, fRhoOutputArray >>

\* the members FastJetFinder::Init leaves for a card with the given rho settings
JetMembers(keepPileUp, etaRange, areaAlgorithm, computeRho) ==
  /\ fKeepPileUp = keepPileUp
  /\ RhoEtaRange = etaRange
  /\ fAreaAlgorithm = areaAlgorithm
  /\ fComputeRho = computeRho
  /\ fEtaRangeMap = EtaRangeMap(etaRange, Len(etaRange) \div 2)
  /\ fInputArray = << >>
  /\ inputList = << >>
  /\ outputList = << >>
  /\ itOutputList = 1
  /\ detaMax = 0
  /\ dphiMax = 0
  /\ fOutputArray = << >>
  /\ fRhoOutputArray = << >>

\* the module after FastJetFinder::Init, rho computed over one range
JetInit ==
  /\ jetPc = "idle"
  /\ \E keepPileUp \in {0, 1} : JetMembers(keepPileUp, << 0, 2 >>, 1, TRUE)

\* RhoEtaRange cards: no range, one, two, two with the same eta1, and a card
\* with an odd number of entries
RhoEtaRangeCards ==
  { << >>, << 0, 2 >>, << 2, 5, 0, 2 >>, << 0, 2, 0, 5 >>, << 0, 2, 3 >> }

\* AreaAlgorithm: none, two of the five known ids, an unknown id
AreaAlgorithmVals == {0, 1, 5, 6}

\* the module after FastJetFinder::Init, for every rho configuration
RhoInit ==
  /\ jetPc = "idle"
  /\ \E etaRange \in RhoEtaRangeCards, areaAlgorithm \in AreaAlgorithmVals,
        computeRho \in BOOLEAN :
       JetMembers(1, etaRange, areaAlgorithm, computeRho)

\* the module is not run
JetRest ==
  /\ jetPc = "off"
  /\ JetMembers(1, << >>, 0, FALSE)

JetNext == JetNewEvent \/ JetCluster \/ JetExport \/ JetFinish

(***************************************************************************)
(* FastJetFinder: properties                                               *)
(***************************************************************************)
\* C3 as stated: for every jet of the output list, at any position, DeltaEta is the
\* maximum over the jet's own constituents of |eta_c - eta_j| and DeltaPhi the
\* maximum of |deltaPhi(c, j)|; constituents of jets emitted earlier in the event
\* have no influence.
C3_JetRadiusOwnConstituents ==
  \A k \in 1..Len(fOutputArray) :
    LET j    == fOutputArray[k]
        cons == { At(fInputArray, j.comp[i]) : i \in 1..Len(j.comp) }
    IN /\ j.DeltaEta = MaxOf({ Abs(j.Eta - c.Eta) : c \in cons })
       /\ j.DeltaPhi = MaxOf({ Abs(DeltaPhi(j.Phi, c.Phi)) : c \in cons })

\* C4 as stated: each Candidate attached to a jet is the input Candidate whose
\* momentum was projected to the corresponding constituent pseudojet, for either
\* KeepPileUp setting; with KeepPileUp = 0 no jet has a constituent with IsPU > 0.
C4_ConstituentsAreInputs ==
  \A k \in 1..Len(fOutputArray) :
    LET j == fOutputArray[k]
    IN /\ Len(j.comp) = Len(j.pseudojets)
       /\ \A i \in 1..Len(j.comp) : j.comp[i] = j.pseudojets[i].from
       /\ fKeepPileUp = 0 => \A i \in 1..Len(j.comp) : At(fInputArray, j.comp[i]).IsPU = 0

(***************************************************************************)
(* BTagging: configuration (BTagging::Init)                                *)
(* Distances DeltaR are integers in units of 0.001; the objects of an      *)
(* event lie on one line, so DeltaR(a, b) = |a.pos - b.pos|.  Eta is in    *)
(* units of 0.1.  The uniform number r and the values of the efficiency    *)
(* formulas are in units of 2^-32 (TRandom3 returns multiples of 2^-32).   *)
(***************************************************************************)
\* the cards of the model: BitNumber of each BTagging instance, in the order
\* in which the instances run on the same jets
BitNumberCards == { << 0 >>, << 1 >>, << 0, 1 >>, << 1, 1 >> }

\* GetDouble("DeltaR", 0.5), line 116
fDeltaR == 500

\* GetDouble("PartonPTMin", 0.), lines 118 and 121
fPTMin == 0

\* GetDouble("PartonEtaMax", 2.5), lines 119 and 122
fEtaMax == 25

\* 0.25 in units of 2^-32
Quarter == Pow2(30)

\* EfficiencyFormula parameters of the cards of the model: key -> value of the
\* formula (each formula of the model is a constant of pT and eta)
EfficiencyCards ==
  { (5 :> Quarter),
    (0 :> Quarter) @@ (4 :> Quarter + 128) @@ (5 :> Quarter + 128) @@ (21 :> 0) }

\* lines 128-141: the formulas of the card, and "0.0" under key 0 if the card
\* has no formula for key 0
EfficiencyMapOf(param) ==
  IF 0 \in DOMAIN param THEN param ELSE param @@ (0 :> 0)

(***************************************************************************)
(* BTagging: classifiers and filter                                        *)
(***************************************************************************)
\* BTaggingPartonClassifier::GetCategory, lines 49-63
PartonCategory(parton) ==
  IF parton.PT <= fPTMin \/ Abs(parton.Eta) > fEtaMax THEN -1
  ELSE IF parton.Status = -1 THEN -1
  ELSE IF Abs(parton.PID) # 21 /\ Abs(parton.PID) > 5 THEN -1
  ELSE 0

\* BTaggingLHEPartonClassifier::GetCategory, lines 74-88
LHEPartonCategory(parton) ==
  IF parton.PT <= fPTMin \/ Abs(parton.Eta) > fEtaMax THEN -1
  ELSE IF parton.Status = -1 THEN -1
  ELSE IF Abs(parton.PID) # 21 /\ Abs(parton.PID) > 5 THEN -1
  ELSE IF parton.Status # 1 THEN -1
  ELSE 0

\* a TObjArray pointer: null, or an array
NullArray == [null |-> TRUE, items |-> << >>]

\* classifier->GetCategory(object) for the two classifiers of the module
GetCategory(classifier, object) ==
  IF classifier = "fClassifier" THEN PartonCategory(object)
  ELSE LHEPartonCategory(object)

\* fFilter->Reset(); fFilter->GetSubArray(classifier, 0), lines 190-191 and
\* 196-197: the elements of category 0 in array order. The filter makes the
\* array of a category when the first element of that category is met and keeps
\* it for the events that follow, where Reset() empties it: the pointer is null
\* only as long as no element of category 0 was ever met (hasArray is FALSE).
GetSubArray(hasArray, array, classifier) ==
  LET InCategory0(element) == GetCategory(classifier, element) = 0
      items == SelectSeq(array, InCategory0)
  IN IF items = << >> /\ ~hasArray THEN NullArray ELSE [null |-> FALSE, items |-> items]

(***************************************************************************)
(* BTagging: GetAlgoFlavour                                                *)
(***************************************************************************)
\* a default-constructed Candidate
EmptyCandidate ==
  [PID |-> 0, Charge |-> 0, PT |-> 0, Eta |-> 0, pos |-> 0,
   D1 |-> -1, D2 |-> -1, M1 |-> -1, M2 |-> -1, Status |-> 0]

\* a.Momentum.DeltaR(b.Momentum)
DeltaR(a, b) == Abs(a.pos - b.pos)

\* float minDr = 1000 (lines 287 and 359)
MinDrInit == 1000000

\* the LHE match of lines 303 and 387, with its distance threshold
MatchesLHE(parton, LHEParton, threshold) ==
  /\ DeltaR(parton, LHEParton) < threshold
  /\ parton.PID = LHEParton.PID
  /\ LHEParton.Charge = parton.Charge

\* the daughter check of lines 311-322
NPartonDaughters(parton, particles) ==
  LET ndaughters == (IF parton.D1 # -1 THEN 1 ELSE 0) + (IF parton.D2 # -1 THEN 1 ELSE 0)
      daughterFlavour1 == IF parton.D1 # -1 THEN Abs(At(particles, parton.D1).PID) ELSE -1
      daughterFlavour2 == IF parton.D2 # -1 THEN Abs(At(particles, parton.D2).PID) ELSE -1
  IN IF ndaughters > 0
     THEN (IF daughterFlavour1 \in {1, 2, 3, 4, 5, 21} THEN 1 ELSE 0)
        + (IF daughterFlavour2 \in {1, 2, 3, 4, 21} \/ daughterFlavour1 = 5 THEN 1 ELSE 0)
     ELSE 0

\* lines 323-336: one pass of the body of the LHE loop after the match test
AlgoCone(jet, parton, particles, acc) ==
  IF NPartonDaughters(parton, particles) > 0 THEN acc
  ELSE IF DeltaR(jet, parton) <= fDeltaR
  THEN LET nearer == DeltaR(jet, parton) < acc.minDr
           heavy  == Abs(parton.PID) = 4 \/ Abs(parton.PID) = 5
           higher == parton.PT > acc.maxPt
       IN [acc EXCEPT
             !.minDr = IF nearer THEN DeltaR(jet, parton) ELSE @,
             !.tempNearest = IF nearer THEN parton ELSE @,
             !.tempParticle = IF heavy THEN parton ELSE @,
             !.maxPt = IF higher THEN parton.PT ELSE @,
             !.tempPartonHighestPt = IF higher THEN parton ELSE @]
  ELSE acc

\* lines 301-337: the loop over the LHE partons for one parton, from the
\* k-th LHE parton on
RECURSIVE AlgoLHELoop(_, _, _, _, _, _)
AlgoLHELoop(jet, parton, LHE, k, particles, acc) ==
  IF k > Len(LHE) THEN acc
  ELSE IF MatchesLHE(parton, LHE[k], 1) THEN acc
  ELSE AlgoLHELoop(jet, parton, LHE, k + 1, particles,
                   AlgoCone(jet, parton, particles, acc))

\* lines 292-338: the loop over the partons, from the i-th parton on
RECURSIVE AlgoPartonLoop(_, _, _, _, _, _)
AlgoPartonLoop(jet, partons, i, LHE, particles, acc) ==
  IF i > Len(partons) THEN acc
  ELSE LET parton == partons[i]
           code   == IF Abs(parton.PID) = 21 THEN 0 ELSE acc.pdgCode
           codeMax == IF DeltaR(jet, parton) <= fDeltaR /\ acc.pdgCodeMax < code
                      THEN code ELSE acc.pdgCodeMax
           acc1   == [acc EXCEPT !.pdgCode = code, !.pdgCodeMax = codeMax]
       IN AlgoPartonLoop(jet, partons, i + 1, LHE, particles,
                         AlgoLHELoop(jet, parton, LHE, 1, particles, acc1))

\* BTagging::GetAlgoFlavour, lines 281-352.  pdgCode0 and pdgCodeMax0 are the
\* values the uninitialised locals pdgCode and pdgCodeMax of line 289 hold.
GetAlgoFlavour(jet, partons, LHE, particles, pdgCode0, pdgCodeMax0) ==
  LET acc == AlgoPartonLoop(jet, partons, 1, LHE, particles,
               [pdgCode |-> pdgCode0, pdgCodeMax |-> pdgCodeMax0,
                minDr |-> MinDrInit, tempNearest |-> EmptyCandidate,
                tempParticle |-> EmptyCandidate, maxPt |-> 0,
                tempPartonHighestPt |-> EmptyCandidate])
      tempParticle == IF acc.tempParticle.PT <= 0 THEN acc.tempPartonHighestPt
                      ELSE acc.tempParticle
      pdgCodeMax == IF acc.pdgCodeMax = 0 THEN 21
                    ELSE IF acc.pdgCodeMax = -1 THEN 0 ELSE acc.pdgCodeMax
  IN [Heaviest  |-> Abs(acc.tempParticle.PID),
      HighestPt |-> Abs(acc.tempPartonHighestPt.PID),
      Nearest2  |-> Abs(acc.tempNearest.PID),
      Algo      |-> Abs(tempParticle.PID),
      Default   |-> pdgCodeMax]

(***************************************************************************)
(* BTagging: GetPhysicsFlavour                                             *)
(***************************************************************************)
\* float TheBiggerConeSize = 0.7, line 361
TheBiggerConeSize == 700

\* lines 366-379: the loop over the LHE partons, from the k-th on
RECURSIVE PhysicsLHELoop(_, _, _, _)
PhysicsLHELoop(jet, LHE, k, acc) ==
  IF k > Len(LHE) THEN acc
  ELSE LET LHEParton == LHE[k]
           dist == DeltaR(jet, LHEParton)
           nearer == LHEParton.Status = 1 /\ dist < acc.minDr
           inCone == LHEParton.Status = 1 /\ dist <= fDeltaR
       IN PhysicsLHELoop(jet, LHE, k + 1,
            [acc EXCEPT
               !.tempNearest = IF nearer THEN LHEParton ELSE @,
               !.minDr = IF nearer THEN dist ELSE @,
               !.tempParticle = IF inCone THEN LHEParton ELSE @,
               !.nInTheCone = IF inCone THEN @ + 1 ELSE @])

\* lines 386-391: the inner loop resumes the LHE iterator where the previous
\* parton left it; the result is << isGoodCandidate, position of the iterator >>
RECURSIVE PhysicsMatchScan(_, _, _)
PhysicsMatchScan(parton, LHE, cursor) ==
  IF cursor > Len(LHE) THEN << TRUE, cursor >>
  ELSE IF MatchesLHE(parton, LHE[cursor], 10) THEN << FALSE, cursor + 1 >>
  ELSE PhysicsMatchScan(parton, LHE, cursor + 1)

\* lines 381-397: the contaminations collected from the i-th parton on
RECURSIVE Contaminations(_, _, _, _, _)
Contaminations(jet, partons, i, LHE, cursor) ==
  IF i > Len(partons) THEN << >>
  ELSE LET parton == partons[i]
           dist   == DeltaR(jet, parton)
           scan   == PhysicsMatchScan(parton, LHE, cursor)
           rest   == Contaminations(jet, partons, i + 1, LHE, scan[2])
       IN IF ~scan[1] THEN rest
          ELSE IF parton.D1 # -1 \/ parton.D2 # -1
          THEN IF Abs(parton.PID) < 4 \/ Abs(parton.PID) = 21 THEN rest
               ELSE IF dist < TheBiggerConeSize THEN << parton >> \o rest
               ELSE rest
          ELSE rest

\* lines 405-416: the loop over the contaminations from the iPart-th on;
\* the result is << flavourPhysics, number of assignments made by the loop >>
RECURSIVE ContaminationLoop(_, _, _, _, _)
ContaminationLoop(contaminations, iPart, tempParticle, particles, flavourPhysics) ==
  IF iPart > Len(contaminations) THEN << flavourPhysics, 0 >>
  ELSE LET c == contaminations[iPart]
           contaminatingFlavour == Abs(c.PID)
           numberOfMothers == (IF c.M1 # -1 THEN 1 ELSE 0) + (IF c.M2 # -1 THEN 1 ELSE 0)
           next == ContaminationLoop(contaminations, iPart + 1, tempParticle,
                                     particles, flavourPhysics)
       IN IF numberOfMothers > 0 /\ DeltaR(At(particles, c.M1), tempParticle) < 1
          THEN next
          ELSE IF Abs(tempParticle.PID) = 4
          THEN IF contaminatingFlavour = 4 THEN next ELSE << 0, 1 >>
          ELSE next

\* BTagging::GetPhysicsFlavour, lines 355-419; writes counts the assignments
\* to jet->flavourPhysics
GetPhysicsFlavour(jet, partons, LHE, particles) ==
  LET acc == PhysicsLHELoop(jet, LHE, 1,
               [tempNearest |-> EmptyCandidate, minDr |-> MinDrInit,
                tempParticle |-> EmptyCandidate, nInTheCone |-> 0])
      contaminations == Contaminations(jet, partons, 1, LHE, 1)
      looped == ContaminationLoop(contaminations, 1, acc.tempParticle, particles,
                                  Abs(acc.tempParticle.PID))
  IN [Nearest3 |-> Abs(acc.tempNearest.PID),
      Physics  |-> IF acc.nInTheCone # 1 THEN 0
                   ELSE IF Len(contaminations) = 0 THEN Abs(acc.tempParticle.PID)
                   ELSE looped[1],
      writes   |-> IF acc.nInTheCone # 1 \/ Len(contaminations) = 0 THEN 1
                   ELSE 1 + looped[2]]

(***************************************************************************)
(* BTagging: the tag                                                       *)
(***************************************************************************)
\* position of the highest set bit of x > 0
RECURSIVE HighBit(_)
HighBit(x) == IF x <= 1 THEN 0 ELSE 1 + HighBit(x \div 2)

\* the double x narrowed to float (24-bit significand, round to nearest,
\* ties to even), line 210
ToFloat(x) ==
  IF x < Pow2(24) THEN x
  ELSE LET shift == HighBit(x) - 23
           unit  == Pow2(shift)
           q     == x \div unit
           rem   == x % unit
           up    == 2 * rem > unit \/ (2 * rem = unit /\ q % 2 = 1)
       IN (IF up THEN q + 1 ELSE q) * unit

\* fEfficiencyMap.find(flavour), with the fallback to key 0, and Eval
\* (lines 213-217 and alike)
Efficiency(map, flavour) ==
  IF flavour \in DOMAIN map THEN map[flavour] ELSE map[0]

\* the right-hand side of the |= of lines 219-273
TagWord(randomNumber, map, flavour, bitNumber) ==
  (IF randomNumber <= Efficiency(map, flavour) THEN 1 ELSE 0) * Pow2(bitNumber)

\* field = word
Assign(field, word) == word

\* field |= word
OrAssign(field, word) == BitOr(field, word)

Variants == {"Algo", "Default", "Physics", "Nearest2", "Nearest3", "Heaviest", "HighestPt"}

(***************************************************************************)
(* BTagging: events                                                        *)
(***************************************************************************)
MaxPartons == 2

\* the generator record: index -> particle
AllParticlesVals ==
  { << [PID |-> 5,   pos |-> 0],
       [PID |-> 21,  pos |-> 100],
       [PID |-> 511, pos |-> 200],
       [PID |-> -4,  pos |-> 300] >> }

Parton(pid, pt, eta, pos, d1, d2, m1, status) ==
  [PID |-> pid, Charge |-> 0, PT |-> pt, Eta |-> eta, pos |-> pos,
   D1 |-> d1, D2 |-> d2, M1 |-> m1, M2 |-> -1, Status |-> status]

PartonVals ==
  { Parton(5, 2, 0, 0, -1, -1, -1, 2),      \* b on the axis, no daughters
    Parton(-4, 3, 0, 300, 2, -1, 0, 2),     \* c with a hadron daughter, mother b
    Parton(21, 1, 0, 100, -1, -1, 0, 2),    \* gluon
    Parton(5, 1, 10, 200, 1, -1, -1, 3),    \* b with a gluon daughter
    Parton(5, 0, 0, 0, -1, -1, -1, 2) }     \* b at rest: fails PT > PartonPTMin

LHEb == Parton(5, 2, 0, 0, -1, -1, -1, 1)           \* b on the axis
LHEc == Parton(-4, 3, 0, 305, -1, -1, -1, 1)        \* c, 0.005 from the c parton
LHEIncoming == Parton(21, 1, 0, 100, -1, -1, -1, 2) \* not outgoing

LHEPartonArrayVals == { << >>, << LHEb >>, << LHEc, LHEb >>, << LHEIncoming >> }

\* a jet as the jet finder leaves it
Jet(pos) ==
  [pos |-> pos,
   flavour |-> [v \in Variants |-> 0],
   BTag    |-> [v \in Variants |-> 0],
   writes  |-> [v \in Variants |-> 0]]

JetArrayVals == { << >>, << Jet(0) >>, << Jet(0), Jet(400) >> }

\* gRandom: the seed fixes the sequence of numbers Uniform() returns
RandomStreams ==
  << << Quarter + 1, Quarter + 65, Quarter, Quarter + 1 >>,
     << Quarter + 65, Quarter, Quarter + 1, Quarter + 65 >> >>

\* the number the (n+1)-th call of gRandom->Uniform() returns
Uniform(seed, n) == RandomStreams[seed][(n % Len(RandomStreams[seed])) + 1]

\* values an uninitialised int of GetAlgoFlavour may hold
UninitVals == { -1, 7 }

(***************************************************************************)
(* BTagging: actions                                                       *)
(***************************************************************************)
\* the jets before a run
FreshJets(jets) == [ i \in DOMAIN jets |-> Jet(jets[i].pos) ]

\* the event is delivered to the module
BTagNewEvent ==
  /\ btagPc = "idle"
  /\ fPartonInputArray' \in SeqsUpTo(PartonVals, MaxPartons)
  /\ fLHEPartonInputArray' \in LHEPartonArrayVals
  /\ allParticles' \in AllParticlesVals
  /\ fJetInputArray' \in JetArrayVals
  /\ btagPc' = "process"
  /\ UNCHANGED << fBitNumbers, instance, fEfficiencyMap, partonArray, LHEpartonArray,
                  itJet, run, rndSeed, rndPos, run1Jets, run1Draws, filters >>
  /\ UNCHANGED notBTagVars

\* BTagging::Process up to the jet loop, lines 181-203
BTagProcess ==
  /\ btagPc = "process"
  /\ LET pa  == GetSubArray(fFilter, fPartonInputArray, "fClassifier")
         lhe == IF pa.null THEN NullArray
                ELSE GetSubArray(fFilterLHE, fLHEPartonInputArray, "fClassifierLHE")
     IN /\ partonArray' = pa
        /\ LHEpartonArray' = lhe
        /\ fFilter' = ~pa.null
        /\ fFilterLHE' = (IF pa.null THEN fFilterLHE ELSE ~lhe.null)
        /\ btagPc' = IF pa.null \/ lhe.null \/ fJetInputArray = << >>
                     THEN "processed" ELSE "jets"
  /\ itJet' = 1
  /\ fJetInputArray' = [ i \in DOMAIN fJetInputArray |->
                           [fJetInputArray[i] EXCEPT !.writes = [v \in Variants |-> 0]] ]
  /\ UNCHANGED << fBitNumbers, instance, fEfficiencyMap, fPartonInputArray,
                  fLHEPartonInputArray, allParticles, run, rndSeed, rndPos, run1Jets, run1Draws >>
  /\ UNCHANGED notBTagVars

\* lines 204-275 for one jet, with the number the generator returns
ProcessJet(jet, pdgCode0, pdgCodeMax0, r) ==
  LET algo == GetAlgoFlavour(jet, partonArray.items, LHEpartonArray.items,
                             allParticles, pdgCode0, pdgCodeMax0)
      phys == GetPhysicsFlavour(jet, partonArray.items, LHEpartonArray.items,
                                allParticles)
      flavour == [v \in Variants |->
                    IF v \in {"Nearest3", "Physics"} THEN phys[v] ELSE algo[v]]
      randomNumber == ToFloat(r)
  IN [jet EXCEPT
        !.flavour = flavour,
        !.writes  = [v \in Variants |-> IF v = "Physics" THEN phys.writes ELSE 1],
        !.BTag    = [v \in Variants |->
                       OrAssign(jet.BTag[v],
                                TagWord(randomNumber, fEfficiencyMap, flavour[v],
                                        fBitNumbers[instance]))]]

\* one iteration of the jet loop
BTagJet ==
  /\ btagPc = "jets"
  /\ \E pdgCode0 \in UninitVals, pdgCodeMax0 \in UninitVals :
       fJetInputArray' = [fJetInputArray EXCEPT
                            ![itJet] = ProcessJet(@, pdgCode0, pdgCodeMax0,
                                                  Uniform(rndSeed, rndPos))]
  /\ rndPos' = rndPos + 1
  /\ itJet' = itJet + 1
  /\ btagPc' = IF itJet = Len(fJetInputArray) THEN "processed" ELSE "jets"
  /\ UNCHANGED << fBitNumbers, instance, fEfficiencyMap, fPartonInputArray,
                  fLHEPartonInputArray, allParticles, partonArray, LHEpartonArray,
                  run, rndSeed, run1Jets, run1Draws, filters >>
  /\ UNCHANGED notBTagVars

\* the next BTagging instance of the card runs on the same jets, with filters
\* of its own
BTagNextInstance ==
  /\ btagPc = "processed"
  /\ instance < Len(fBitNumbers)
  /\ instance' = instance + 1
  /\ fFilter' = FALSE
  /\ fFilterLHE' = FALSE
  /\ btagPc' = "process"
  /\ UNCHANGED << fBitNumbers, fEfficiencyMap, fPartonInputArray, fLHEPartonInputArray,
                  allParticles, fJetInputArray, partonArray, LHEpartonArray, itJet,
                  run, rndSeed, rndPos, run1Jets, run1Draws >>
  /\ UNCHANGED notBTagVars

\* every instance has processed the event
BTagDone == btagPc = "processed" /\ instance = Len(fBitNumbers)

\* the same event is processed again, with the generator in the state it had
\* before the first run
BTagRepeat ==
  /\ BTagDone
  /\ run = 1
  /\ run' = 2
  /\ run1Jets' = fJetInputArray
  /\ run1Draws' = rndPos
  /\ fJetInputArray' = FreshJets(fJetInputArray)
  /\ rndPos' = 0
  /\ instance' = 1
  /\ btagPc' = "process"
  /\ UNCHANGED << fBitNumbers, fEfficiencyMap, fPartonInputArray, fLHEPartonInputArray,
                  allParticles, partonArray, LHEpartonArray, itJet, rndSeed, filters >>
  /\ UNCHANGED notBTagVars

BTagEventRest ==
  /\ instance = 1
  /\ fPartonInputArray = << >>
  /\ fLHEPartonInputArray = << >>
  /\ allParticles = << >>
  /\ fJetInputArray = << >>
  /\ partonArray = NullArray
  /\ LHEpartonArray = NullArray
  /\ fFilter = FALSE
  /\ fFilterLHE = FALSE
  /\ itJet = 1
  /\ run = 1
  /\ rndPos = 0
  /\ run1Jets = << >>
  /\ run1Draws = 0

\* a card with one or several BTagging instances
BTagInit ==
  /\ btagPc = "idle"
  /\ fBitNumbers \in BitNumberCards
  /\ rndSeed \in DOMAIN RandomStreams
  /\ fEfficiencyMap \in { EfficiencyMapOf(c) : c \in EfficiencyCards }
  /\ BTagEventRest

\* a card with one BTagging instance
BTagInitOne ==
  /\ BTagInit
  /\ Len(fBitNumbers) = 1

\* the module is not run
BTagRest ==
  /\ btagPc = "off"
  /\ fBitNumbers = << 0 >>
  /\ fEfficiencyMap = (0 :> 0)
  /\ rndSeed = 1
  /\ BTagEventRest

BTagNext == BTagNewEvent \/ BTagProcess \/ BTagJet \/ BTagNextInstance

BTagRepeatNext == BTagNewEvent \/ BTagProcess \/ BTagJet \/ BTagRepeat

(***************************************************************************)
(* BTagging: properties                                                    *)
(***************************************************************************)
FlavourValues == {0, 1, 2, 3, 4, 5, 21}

\* the jet loop of the running Process has processed every jet
JetLoopDone ==
  /\ btagPc = "processed"
  /\ ~partonArray.null
  /\ ~LHEpartonArray.null
  /\ fJetInputArray # << >>

\* C5: after a Process whose jet loop ran, every jet has each of its seven
\* flavour fields written exactly once, and every value is one of
\* 0, 1, 2, 3, 4, 5, 21.
C5_FlavourWrittenOnce ==
  JetLoopDone =>
    \A i \in DOMAIN fJetInputArray : \A v \in Variants :
      /\ fJetInputArray[i].writes[v] = 1
      /\ fJetInputArray[i].flavour[v] \in FlavourValues

\* x with bit b cleared
OtherBits(x, b) == x - BitAnd(x, Pow2(b))

\* C6: a step of the BTagging instance that runs changes, in every BTag field
\* of every jet, no bit other than bit BitNumber of that instance.
C6_OnlyBitNumberChanges ==
  [][\A i \in DOMAIN fJetInputArray \cap DOMAIN fJetInputArray' : \A v \in Variants :
       OtherBits(fJetInputArray'[i].BTag[v], fBitNumbers[instance])
         = OtherBits(fJetInputArray[i].BTag[v], fBitNumbers[instance])]_vars

\* the second instance, with bit 1, has left untagged a jet the first
\* instance tagged in bit 0: bit 0 is still set
C6_Witness ==
  /\ JetLoopDone
  /\ fBitNumbers = << 0, 1 >>
  /\ instance = 2
  /\ \E i \in DOMAIN fJetInputArray : \E v, w \in Variants :
       /\ fJetInputArray[i].BTag[v] = 1
       /\ fJetInputArray[i].BTag[w] = 3

\* the number drawn for the i-th jet by the Process that has just run
DrawnFor(i) == Uniform(rndSeed, rndPos - Len(fJetInputArray) + i - 1)

\* C7: after the first Process on the jets of an event, bit BitNumber of each
\* BTag field is 1 if and only if r <= eff, r being the number drawn for the
\* jet and eff the formula keyed by the flavour of the variant (key 0 when
\* the flavour has no formula).
C7_BitIffRandomBelowEfficiency ==
  (JetLoopDone /\ instance = 1) =>
    \A i \in DOMAIN fJetInputArray : \A v \in Variants :
      (BitAnd(fJetInputArray[i].BTag[v], Pow2(fBitNumbers[1])) # 0)
        <=> (DrawnFor(i) <= Efficiency(fEfficiencyMap, fJetInputArray[i].flavour[v]))

\* C8: a repetition of the run on the same event, with the generator started
\* from the same seed, leaves the same flavour and BTag fields on every jet
\* and has drawn as many numbers.
C8_RepeatIsIdentical ==
  (run = 2 /\ BTagDone) =>
    /\ rndPos = run1Draws
    /\ \A i \in DOMAIN fJetInputArray :
         /\ fJetInputArray[i].flavour = run1Jets[i].flavour
         /\ fJetInputArray[i].BTag = run1Jets[i].BTag

(***************************************************************************)
(* DelphesPythia8 driver (src/classes/DelphesClasses.h, from line 872)     *)
(***************************************************************************)
\* number of events of the longest LHE file of the model
MaxEvents == 3

LHEParticle(id, status, e) == [IDUP |-> id, ISTUP |-> status, E |-> e]

\* events of an LHE file; the model takes the mass of a sum of momenta to be
\* the sum of the values E
LHEEventVals ==
  { << LHEParticle(21, -1, 0), LHEParticle(11, 1, 50), LHEParticle(2, 1, 80) >>,
    << LHEParticle(21, -1, 0), LHEParticle(1, 1, 80), LHEParticle(-2, 1, 80) >>,
    << LHEParticle(13, 1, 50), LHEParticle(1, 1, 30), LHEParticle(5, 1, 30) >> }

\* command lines: Mjj_cut, filter, start, number (lines 989-1000)
CommandLineVals ==
  { [Mjj_cut |-> 0,   skimFullyHadronic |-> 1, startEvent |-> 0, nEvent |-> -1],
    [Mjj_cut |-> 100, skimFullyHadronic |-> 1, startEvent |-> 1, nEvent |-> -1],
    [Mjj_cut |-> 100, skimFullyHadronic |-> 0, startEvent |-> 0, nEvent |-> 2] }

PythiaParticle(id, status) == [id |-> id, statusHepMC |-> status]

\* event records the generator may hold when pythia->next() returns
PythiaEventVals ==
  { << PythiaParticle(5, 2), PythiaParticle(211, 1) >>,
    << PythiaParticle(2212, 4) >> }

\* lines 1163-1174: momenta of the status-1 partons, and the lepton count
RECURSIVE OutPartons(_)
OutPartons(hepeup) ==
  IF hepeup = << >> THEN << >>
  ELSE LET p == Head(hepeup)
       IN (IF p.ISTUP = 1
              /\ ((Abs(p.IDUP) > 0 /\ Abs(p.IDUP) < 7) \/ Abs(p.IDUP) = 21)
           THEN << p.E >> ELSE << >>)
          \o OutPartons(Tail(hepeup))

Leptons(hepeup) ==
  Cardinality({ i \in DOMAIN hepeup : Abs(hepeup[i].IDUP) \in {11, 13, 15} })

\* mass of outPartons[i] + ... + outPartons[j]
RECURSIVE MassOfSum(_, _, _)
MassOfSum(outPartons, i, j) ==
  IF i > j THEN 0 ELSE outPartons[i] + MassOfSum(outPartons, i + 1, j)

\* lines 1182-1190
MjjCheck(outPartons, cut) ==
  IF \E i \in DOMAIN outPartons : \E j \in (i + 1)..Len(outPartons) :
       MassOfSum(outPartons, i, j) > cut
  THEN 1 ELSE 0

\* Candidates for the outgoing particles of the event only
LHECandidatesOutgoing(hepeup, number) ==
  LET out == SelectSeq(hepeup, LAMBDA p : p.ISTUP = 1)
  IN [ i \in DOMAIN out |->
         [born |-> number, PID |-> out[i].IDUP, Status |-> out[i].ISTUP] ]

\* the Candidates lines 1207-1233 create for the event read as number
LHECandidates(hepeup, number) ==
  [ i \in DOMAIN hepeup |->
      [born |-> number, PID |-> hepeup[i].IDUP, Status |-> hepeup[i].ISTUP] ]

\* the same Candidates, created before the event is tested
LHEEventPreselectionEager(hepeup, cut, skim, number) ==
  LET outPartons == OutPartons(hepeup)
  IN IF skim # 0 /\ Leptons(hepeup) < 1
     THEN [accept |-> FALSE, candidates |-> LHECandidates(hepeup, number)]
     ELSE IF Len(outPartons) >= 2 /\ MjjCheck(outPartons, cut) = 0
     THEN [accept |-> FALSE, candidates |-> LHECandidates(hepeup, number)]
     ELSE [accept |-> TRUE, candidates |-> LHECandidates(hepeup, number)]

\* LHEEventPreselection, lines 1145-1237: the verdict and the Candidates made
LHEEventPreselection(hepeup, cut, skim, number) ==
  LET outPartons == OutPartons(hepeup)
  IN IF skim # 0 /\ Leptons(hepeup) < 1
     THEN [accept |-> FALSE, candidates |-> << >>]
     ELSE IF Len(outPartons) >= 2 /\ MjjCheck(outPartons, cut) = 0
     THEN [accept |-> FALSE, candidates |-> << >>]
     ELSE [accept |-> TRUE, candidates |-> LHECandidates(hepeup, number)]

\* the positions, in order, at which a sequence of booleans is TRUE
Positions(flags) ==
  SetToSortedSeq({ i \in DOMAIN flags : flags[i] })

\* Delphes::Clear: the factory's pool and every exported array are emptied
DelphesClear(p) == << >>

DriverPcs == {"init", "loop", "preselect", "generate", "convert", "process", "fill",
              "clear", "finish", "write", "exit"}

\* SIGINT arrives (lines 900-902)
SignalHandler ==
  /\ drvPc \in DriverPcs \ {"exit"}
  /\ ~interrupted
  /\ interrupted' = TRUE
  /\ UNCHANGED << drvPc, lheFile, commandLine, readerPos, eventCounter, errorCounter,
                  startCounter, skippedCounter, pool, allParticleOutputArray,
                  stableParticleOutputArray, partonOutputArray, LHEparticlesArray,
                  pythiaEvent, treeEntries >>
  /\ UNCHANGED notDrvVars

\* modularDelphes->InitTask(), line 1023, and the set-up of lines 1029-1071
InitTask ==
  /\ drvPc = "init"
  /\ drvPc' = "loop"
  /\ UNCHANGED << interrupted, lheFile, commandLine, readerPos, eventCounter,
                  errorCounter, startCounter, skippedCounter, pool,
                  allParticleOutputArray, stableParticleOutputArray,
                  partonOutputArray, LHEparticlesArray, pythiaEvent, treeEntries >>
  /\ UNCHANGED notDrvVars

\* a limit that lets one more event through
LimitPassed(counter, nEvent) == counter > nEvent /\ nEvent # -1

\* the test of line 1078
LimitReached(counter, nEvent) == counter >= nEvent /\ nEvent # -1

\* the head of the loop, lines 1073-1078
DrvReadEvent ==
  /\ drvPc = "loop"
  /\ IF readerPos >= Len(lheFile)
     THEN /\ drvPc' = "finish"
          /\ UNCHANGED << readerPos, startCounter >>
     ELSE /\ readerPos' = readerPos + 1
          /\ IF startCounter < commandLine.startEvent
             THEN /\ startCounter' = startCounter + 1
                  /\ drvPc' = "loop"
             ELSE /\ UNCHANGED startCounter
                  /\ drvPc' = IF LimitReached(eventCounter, commandLine.nEvent)
                              THEN "finish" ELSE "preselect"
  /\ UNCHANGED << interrupted, lheFile, commandLine, eventCounter, errorCounter,
                  skippedCounter, pool, allParticleOutputArray,
                  stableParticleOutputArray, partonOutputArray, LHEparticlesArray,
                  pythiaEvent, treeEntries >>
  /\ UNCHANGED notDrvVars

\* line 1079, and lines 1105-1110 when the event is rejected
DrvPreselection ==
  /\ drvPc = "preselect"
  /\ LET res == LHEEventPreselection(lheFile[readerPos], commandLine.Mjj_cut,
                                     commandLine.skimFullyHadronic, readerPos)
         n   == Len(pool)
     IN /\ pool' = pool \o res.candidates
        /\ LHEparticlesArray' = LHEparticlesArray
                                \o [ i \in DOMAIN res.candidates |-> n + i ]
        /\ IF res.accept
           THEN /\ drvPc' = "generate"
                /\ UNCHANGED << skippedCounter, eventCounter >>
           ELSE /\ \E skipped \in BOOLEAN :
                     skippedCounter' = IF skipped THEN skippedCounter + 1
                                       ELSE skippedCounter
                /\ eventCounter' = eventCounter + 1
                /\ drvPc' = "loop"
  /\ UNCHANGED << interrupted, lheFile, commandLine, readerPos, errorCounter,
                  startCounter, allParticleOutputArray, stableParticleOutputArray,
                  partonOutputArray, pythiaEvent, treeEntries >>
  /\ UNCHANGED notDrvVars

\* lines 1080-1088
DrvPythiaNext ==
  /\ drvPc = "generate"
  /\ \E ok \in BOOLEAN, atEndOfFile \in BOOLEAN, event \in PythiaEventVals :
       /\ pythiaEvent' = event
       /\ IF ok
          THEN /\ drvPc' = "convert"
               /\ UNCHANGED errorCounter
          ELSE IF atEndOfFile
          THEN /\ drvPc' = "finish"
               /\ UNCHANGED errorCounter
          ELSE /\ errorCounter' = errorCounter + 1
               /\ drvPc' = "convert"
  /\ UNCHANGED << interrupted, lheFile, commandLine, readerPos, eventCounter,
                  startCounter, skippedCounter, pool, allParticleOutputArray,
                  stableParticleOutputArray, partonOutputArray, LHEparticlesArray,
                  treeEntries >>
  /\ UNCHANGED notDrvVars

\* ConvertInput, lines 1241-1325
ConvertInput ==
  /\ drvPc = "convert"
  /\ LET n == Len(pool)
         made == [ i \in DOMAIN pythiaEvent |->
                     [born |-> readerPos, PID |-> pythiaEvent[i].id,
                      Status |-> pythiaEvent[i].statusHepMC] ]
         IsStable(c) == c.Status = 1
         IsParton(c) == c.Status # 1 /\ (Abs(c.PID) <= 5 \/ Abs(c.PID) = 21
                                          \/ Abs(c.PID) = 15)
         Shift(s) == [ i \in DOMAIN s |-> n + s[i] ]
     IN /\ pool' = pool \o made
        /\ allParticleOutputArray' = allParticleOutputArray
                                     \o [ i \in DOMAIN made |-> n + i ]
        /\ stableParticleOutputArray' = stableParticleOutputArray
                                        \o Shift(Positions([ i \in DOMAIN made |-> IsStable(made[i]) ]))
        /\ partonOutputArray' = partonOutputArray \o Shift(Positions([ i \in DOMAIN made |-> IsParton(made[i]) ]))
  /\ drvPc' = "process"
  /\ UNCHANGED << interrupted, lheFile, commandLine, readerPos, eventCounter,
                  errorCounter, startCounter, skippedCounter, LHEparticlesArray,
                  pythiaEvent, treeEntries >>
  /\ UNCHANGED notDrvVars

\* modularDelphes->ProcessTask(), line 1094
ProcessTask ==
  /\ drvPc = "process"
  /\ drvPc' = "fill"
  /\ UNCHANGED << interrupted, lheFile, commandLine, readerPos, eventCounter,
                  errorCounter, startCounter, skippedCounter, pool,
                  allParticleOutputArray, stableParticleOutputArray,
                  partonOutputArray, LHEparticlesArray, pythiaEvent, treeEntries >>
  /\ UNCHANGED notDrvVars

\* treeWriter->Fill(), line 1098
Fill ==
  /\ drvPc = "fill"
  /\ treeEntries' = treeEntries + 1
  /\ drvPc' = "clear"
  /\ UNCHANGED << interrupted, lheFile, commandLine, readerPos, eventCounter,
                  errorCounter, startCounter, skippedCounter, pool,
                  allParticleOutputArray, stableParticleOutputArray,
                  partonOutputArray, LHEparticlesArray, pythiaEvent >>
  /\ UNCHANGED notDrvVars

\* lines 1101-1110: the end of an accepted event
DrvClear ==
  /\ drvPc = "clear"
  /\ pool' = DelphesClear(pool)
  /\ allParticleOutputArray' = DelphesClear(allParticleOutputArray)
  /\ stableParticleOutputArray' = DelphesClear(stableParticleOutputArray)
  /\ partonOutputArray' = DelphesClear(partonOutputArray)
  /\ LHEparticlesArray' = DelphesClear(LHEparticlesArray)
  /\ eventCounter' = eventCounter + 1
  /\ drvPc' = "loop"
  /\ UNCHANGED << interrupted, lheFile, commandLine, readerPos, errorCounter,
                  startCounter, skippedCounter, pythiaEvent, treeEntries >>
  /\ UNCHANGED notDrvVars

\* modularDelphes->FinishTask(), line 1123
FinishTask ==
  /\ drvPc = "finish"
  /\ drvPc' = "write"
  /\ UNCHANGED << interrupted, lheFile, commandLine, readerPos, eventCounter,
                  errorCounter, startCounter, skippedCounter, pool,
                  allParticleOutputArray, stableParticleOutputArray,
                  partonOutputArray, LHEparticlesArray, pythiaEvent, treeEntries >>
  /\ UNCHANGED notDrvVars

\* treeWriter->Write(), line 1124
Write ==
  /\ drvPc = "write"
  /\ drvPc' = "exit"
  /\ UNCHANGED << interrupted, lheFile, commandLine, readerPos, eventCounter,
                  errorCounter, startCounter, skippedCounter, pool,
                  allParticleOutputArray, stableParticleOutputArray,
                  partonOutputArray, LHEparticlesArray, pythiaEvent, treeEntries >>
  /\ UNCHANGED notDrvVars

DrvCountersRest ==
  /\ interrupted = FALSE
  /\ readerPos = 0
  /\ eventCounter = 0
  /\ errorCounter = 0
  /\ startCounter = 0
  /\ skippedCounter = 0
  /\ pool = << >>
  /\ allParticleOutputArray = << >>
  /\ stableParticleOutputArray = << >>
  /\ partonOutputArray = << >>
  /\ LHEparticlesArray = << >>
  /\ pythiaEvent = << >>
  /\ treeEntries = 0

\* the state at line 1023, before modularDelphes->InitTask()
DrvInit ==
  /\ drvPc = "init"
  /\ lheFile \in SeqsUpTo(LHEEventVals, MaxEvents)
  /\ commandLine \in CommandLineVals
  /\ DrvCountersRest

\* the driver is not run
DrvRest ==
  /\ drvPc = "off"
  /\ lheFile = << >>
  /\ commandLine = [Mjj_cut |-> 0, skimFullyHadronic |-> 1, startEvent |-> 0,
                    nEvent |-> -1]
  /\ DrvCountersRest

DrvNext ==
  \/ SignalHandler
  \/ InitTask
  \/ DrvReadEvent
  \/ DrvPreselection
  \/ DrvPythiaNext
  \/ ConvertInput
  \/ ProcessTask
  \/ Fill
  \/ DrvClear
  \/ FinishTask
  \/ Write

(***************************************************************************)
(* Driver: properties                                                      *)
(***************************************************************************)
\* C9: whenever the loop is about to read an event, the pool and the arrays
\* allParticles, stableParticles, partons and LHEParticles are empty.
C9_PoolEmptyAtEventStart ==
  drvPc = "loop" =>
    /\ pool = << >>
    /\ allParticleOutputArray = << >>
    /\ stableParticleOutputArray = << >>
    /\ partonOutputArray = << >>
    /\ LHEparticlesArray = << >>

\* the loop is about to read after an event was rejected, an event failed in
\* the generator and was written, and another was written
C9_Witness ==
  /\ drvPc = "loop"
  /\ eventCounter - treeEntries >= 1
  /\ errorCounter >= 1
  /\ treeEntries >= 2

\* C10: once interrupted is set, the loop starts no further event.
C10_NoEventAfterInterrupt ==
  [][(interrupted /\ drvPc = "loop") => drvPc' \in {"loop", "finish"}]_vars

\* C11: when pythia->next() fails and the input is not at its end, the failure
\* counter is incremented and the event is skipped: the loop goes on with the
\* next event, without ConvertInput, ProcessTask or Fill for the failed one.
C11_FailedEventSkipped ==
  [][(drvPc = "generate" /\ errorCounter' = errorCounter + 1) => drvPc' = "loop"]_vars

\* the step enters position p of main
Enters(p) == drvPc' = p /\ drvPc # p

\* the arrays hold the Candidates of the event being processed, all of them
\* and no others
ArraysFilled ==
  /\ Len(LHEparticlesArray) = Len(lheFile[readerPos])
  /\ Len(allParticleOutputArray) = Len(pythiaEvent)
  /\ Len(pool) = Len(lheFile[readerPos]) + Len(pythiaEvent)
  /\ \A i \in DOMAIN pool : pool[i].born = readerPos
  /\ \A i \in DOMAIN LHEparticlesArray :
       pool[LHEparticlesArray[i]].PID = lheFile[readerPos][i].IDUP
  /\ \A i \in DOMAIN allParticleOutputArray :
       pool[allParticleOutputArray[i]].PID = pythiaEvent[i].id

RECURSIVE SumE(_)
SumE(s) == IF s = << >> THEN 0 ELSE Head(s).E + SumE(Tail(s))

\* the particle's position lies in a bin of the grid
InGrid(particle) ==
  LET etaBin == EtaBinOf(fEtaBins, particle.Eta)
  IN etaBin # NoBin /\ PhiBinOf(fPhiBins, etaBin, particle.Phi) # NoBin

\* E times (ecal fraction + hcal fraction) of the particles of a sequence that
\* lie in the grid
RECURSIVE DepositedInGrid(_)
DepositedInGrid(particles) ==
  IF particles = << >> THEN 0
  ELSE LET particle == Head(particles)
           frac     == FractionOf(Abs(particle.PID))
       IN (IF InGrid(particle) THEN particle.E * (frac[1] + frac[2]) ELSE 0)
          + DepositedInGrid(Tail(particles))

\* C12: with both resolution formulas evaluating to zero, the energies of the
\* Candidates of the towers array add up to the sum of E * (ecal fraction + hcal
\* fraction) over exactly the input particles lying in a bin of the grid; tracks
\* add nothing, and no deposit is lost or counted twice.
C12_TowerEnergyConserved ==
  (caloPc = "done" /\ ~sigmaCfg) =>
    SumE(fTowerOutputArray) = DepositedInGrid(fParticleInputArray)

\* an event is finished, without smearing, in which two particles shared a tower
\* that also took a track, and the tower was emitted
C12_Witness ==
  /\ caloPc = "done"
  /\ ~sigmaCfg
  /\ fEFlowTrackOutputArray # << >>
  /\ \E i \in DOMAIN fTowerOutputArray :
       /\ Len(fTowerOutputArray[i].comp) = 2
       /\ fTowerOutputArray[i].E > 0

\* the Candidates the module emitted as towers, photons and energy-flow towers
EmittedTowers ==
  SeqRange(fTowerOutputArray) \cup SeqRange(fPhotonOutputArray)
    \cup SeqRange(fEFlowTowerOutputArray)

\* the four edges are those of one bin of the configured grid
ConfiguredBinEdges(edges) ==
  \E etaBin \in 1..(Len(fEtaBins) - 1) :
    /\ edges[1] = At(fEtaBins, etaBin - 1)
    /\ edges[2] = At(fEtaBins, etaBin)
    /\ \E phiBin \in 1..(Len(At(fPhiBins, etaBin)) - 1) :
         /\ edges[3] = At(At(fPhiBins, etaBin), phiBin - 1)
         /\ edges[4] = At(At(fPhiBins, etaBin), phiBin)

\* the tower the Candidate t was built as: itself, or the tower it is a clone of
BuiltTower(t) ==
  IF t.cloneOf = 0 THEN t
  ELSE CHOOSE u \in SeqRange(fTowerOutputArray) : u.id = t.cloneOf

\* C14: every Candidate emitted to towers, photons or eflowTowers has
\* Edges[0] < Edges[1] and Edges[2] < Edges[3], and its Edges are the configured
\* edges that bound the bin to which its hits were assigned.
C14_EdgesBoundTheBin ==
  \A t \in EmittedTowers :
    /\ t.Edges[1] < t.Edges[2]
    /\ t.Edges[3] < t.Edges[4]
    /\ ConfiguredBinEdges(t.Edges)
    /\ \E u \in SeqRange(fTowerOutputArray) : u.id = BuiltTower(t).id
    /\ BuiltTower(t).comp # << >>
    /\ \A k \in DOMAIN BuiltTower(t).comp :
         LET particle == At(fParticleInputArray, BuiltTower(t).comp[k])
         IN /\ t.Edges[1] <= particle.Eta /\ particle.Eta <= t.Edges[2]
            /\ t.Edges[3] <= particle.Phi /\ particle.Phi <= t.Edges[4]
            /\ At(fEtaBins, EtaBinOf(fEtaBins, particle.Eta)) = t.Edges[2]
            /\ At(At(fPhiBins, EtaBinOf(fEtaBins, particle.Eta)),
                  PhiBinOf(fPhiBins, EtaBinOf(fEtaBins, particle.Eta), particle.Phi))
                 = t.Edges[4]

\* an event is finished that emitted towers, photons and energy-flow towers, one
\* of them in an eta bin whose phi edges differ from those of the bin below
C14_Witness ==
  /\ caloPc = "done"
  /\ fPhotonOutputArray # << >>
  /\ fEFlowTowerOutputArray # << >>
  /\ \E t \in SeqRange(fTowerOutputArray) :
       \E etaBin \in 2..(Len(fEtaBins) - 1) :
         /\ t.Edges[2] = At(fEtaBins, etaBin)
         /\ At(fPhiBins, etaBin) # At(fPhiBins, etaBin - 1)

\* the substructure fields of C13
GatedFields == {"TrimmedMass", "Tau1", "Tau2", "Tau3", "WTag", "TopTag", "HTag"}

\* C13: substructure is gated on pT > 200.  For every output jet with pT <= 200,
\* exactly 200 included, no substructure field is computed and TrimmedMass, Tau1,
\* Tau2, Tau3 and the W, Top and H tags keep their zero defaults; for every jet
\* with pT > 200, TrimmedMass (clamped to >= 0) and Tau1, Tau2, Tau3 are written.
C13_SubStructureGated ==
  \A k \in 1..Len(fOutputArray) :
    LET j == fOutputArray[k]
    IN /\ j.PT <= 200 =>
            /\ j.sub.written = {}
            /\ j.sub.TrimmedMass = 0 /\ j.sub.Tau1 = 0 /\ j.sub.Tau2 = 0 /\ j.sub.Tau3 = 0
            /\ j.sub.WTag = 0 /\ j.sub.TopTag = 0 /\ j.sub.HTag = 0
       /\ j.PT > 200 =>
            /\ {"TrimmedMass", "Tau1", "Tau2", "Tau3"} \subseteq j.sub.written
            /\ j.sub.TrimmedMass >= 0

\* an event is finished with a jet of pT exactly 200, a jet above the threshold
\* whose trimmed mass was clamped, and a jet above the threshold with a tag
C13_Witness ==
  /\ jetPc = "done"
  /\ \E k \in 1..Len(fOutputArray) : fOutputArray[k].PT = 200
  /\ \E k \in 1..Len(fOutputArray) :
       /\ fOutputArray[k].PT > 200
       /\ fOutputArray[k].sub.TrimmedMass = 0
       /\ fOutputArray[k].sub.Tau1 = 0

(***************************************************************************)
(* BTagging: the flavour functions on the jets of one event                *)
(***************************************************************************)
\* partons of the events the flavour functions are applied to: those of
\* PartonVals, a decaying c whose mother is the gluon, and a gluon whose second
\* daughter is the b
FlavourPartonVals ==
  PartonVals \cup
  { Parton(-4, 3, 0, 300, 2, -1, 1, 2),
    Parton(21, 2, 0, 100, 2, 0, -1, 2) }

FlavourLHEPartonArrayVals ==
  LHEPartonArrayVals \cup { << LHEc >>, << LHEb, LHEc >> }

\* an event with jets is delivered to a single BTagging instance, whose filters
\* may have seen partons in the events before
FlavourInit ==
  /\ btagPc = "process"
  /\ fBitNumbers = << 0 >>
  /\ rndSeed = 1
  /\ fEfficiencyMap \in { EfficiencyMapOf(c) : c \in EfficiencyCards }
  /\ instance = 1
  /\ fPartonInputArray \in SeqsUpTo(FlavourPartonVals, MaxPartons)
  /\ fLHEPartonInputArray \in FlavourLHEPartonArrayVals
  /\ allParticles \in AllParticlesVals
  /\ fJetInputArray \in JetArrayVals \ { << >> }
  /\ partonArray = NullArray
  /\ LHEpartonArray = NullArray
  /\ fFilter \in BOOLEAN
  /\ fFilterLHE \in BOOLEAN
  /\ itJet = 1
  /\ run = 1
  /\ rndPos = 0
  /\ run1Jets = << >>
  /\ run1Draws = 0

FlavourNext == BTagProcess \/ BTagJet

(***************************************************************************)
(* BTagging: properties of the flavour functions                           *)
(***************************************************************************)
\* the jets GetAlgoFlavour and GetPhysicsFlavour have been applied to
ProcessedJets ==
  IF btagPc \in {"jets", "processed"} /\ ~partonArray.null /\ ~LHEpartonArray.null
  THEN { fJetInputArray[i] : i \in 1..(itJet - 1) }
  ELSE {}

\* the filtered partons within the cone of the jet
ConePartons(jet) ==
  { p \in SeqRange(partonArray.items) : DeltaR(jet, p) <= fDeltaR }

\* the parton matches an LHE parton of the filtered list, at any position
MatchesSomeLHE(parton) ==
  \E k \in DOMAIN LHEpartonArray.items : MatchesLHE(parton, LHEpartonArray.items[k], 1)

\* one of the recorded daughters of the parton is a quark (1..5) or a gluon
HasPartonDaughter(parton) ==
  \/ parton.D1 # -1 /\ Abs(At(allParticles, parton.D1).PID) \in {1, 2, 3, 4, 5, 21}
  \/ parton.D2 # -1 /\ Abs(At(allParticles, parton.D2).PID) \in {1, 2, 3, 4, 5, 21}

\* the partons the algorithmic derivation is to consider for the jet
Eligible(jet) ==
  { p \in ConePartons(jet) : ~MatchesSomeLHE(p) /\ ~HasPartonDaughter(p) }

\* none of the four algorithmic fields of the jet was set from a parton
AlgoFieldsUnset(jet) ==
  /\ jet.flavour["Nearest2"] = 0
  /\ jet.flavour["HighestPt"] = 0
  /\ jet.flavour["Heaviest"] = 0
  /\ jet.flavour["Algo"] = 0

\* C16: a parton that matches some LHE parton of the filtered list is skipped
\* wherever the matching LHE parton stands in the list, so a jet all of whose
\* cone partons match sets none of Nearest2, HighestPt, Heaviest, Algo; a cone
\* parton that matches none and has no daughter is considered.
C16_MatchedPartonSkipped ==
  \A jet \in ProcessedJets :
    /\ (\A p \in ConePartons(jet) : MatchesSomeLHE(p)) => AlgoFieldsUnset(jet)
    /\ (\E p \in ConePartons(jet) : ~MatchesSomeLHE(p) /\ p.D1 = -1 /\ p.D2 = -1)
         => jet.flavour["Nearest2"] # 0

\* for the jet, the code's skipping and the documented one select the same
\* partons: no cone parton matches an LHE parton and none has a daughter that
\* is a parton
SkipsAgree(jet) ==
  \A p \in ConePartons(jet) : ~MatchesSomeLHE(p) /\ ~HasPartonDaughter(p)

\* the flavour "b if any, else c if any, else nothing" of the eligible partons
HeaviestOf(partons) ==
  IF \E p \in partons : Abs(p.PID) = 5 THEN 5
  ELSE IF \E p \in partons : Abs(p.PID) = 4 THEN 4
  ELSE 0

\* C17: flavourHeaviest is 5 whenever an eligible b lies in the cone, whatever
\* the order of the partons, 4 only when there is no eligible b but an eligible
\* c, and 0 otherwise; flavourAlgo is flavourHeaviest when that is non-zero and
\* flavourHighestPt otherwise.  Stated for the jets on which no parton is to be
\* skipped.
C17_HeaviestPrefersB ==
  \A jet \in ProcessedJets :
    SkipsAgree(jet) =>
      /\ jet.flavour["Heaviest"] = HeaviestOf(Eligible(jet))
      /\ jet.flavour["Algo"] = IF jet.flavour["Heaviest"] # 0
                               THEN jet.flavour["Heaviest"]
                               ELSE jet.flavour["HighestPt"]

\* the status-1 LHE partons of the filtered list within the cone of the jet
LHEInCone(jet) ==
  { k \in DOMAIN LHEpartonArray.items :
      LHEpartonArray.items[k].Status = 1 /\ DeltaR(jet, LHEpartonArray.items[k]) <= fDeltaR }

\* the contamination set: decaying partons of flavour c or heavier, not gluons,
\* within 0.7 of the jet
ContaminationSet(jet) ==
  { p \in SeqRange(partonArray.items) :
      /\ p.D1 # -1 \/ p.D2 # -1
      /\ Abs(p.PID) >= 4 /\ Abs(p.PID) # 21
      /\ DeltaR(jet, p) < TheBiggerConeSize }

\* the mother of the contaminant is the initial parton
MotherIs(contaminant, initial) ==
  contaminant.M1 # -1 /\ DeltaR(At(allParticles, contaminant.M1), initial) < 1

\* no parton of the event coincides with an LHE parton
NoPartonIsLHE ==
  \A p \in SeqRange(partonArray.items) : \A k \in DOMAIN LHEpartonArray.items :
    ~MatchesLHE(p, LHEpartonArray.items[k], 10)

\* C18: flavourPhysics is 0 unless exactly one status-1 LHE parton lies in the
\* cone; then it is |PID| of that parton, of whatever flavour, except that it is
\* reset to 0 when the contamination set holds a parton of a different flavour
\* whose mother is not that initial parton; a contaminant of the same flavour
\* never resets.  Stated for the events in which no parton coincides with an LHE
\* parton.
C18_PhysicsFlavour ==
  \A jet \in ProcessedJets :
    NoPartonIsLHE =>
      IF Cardinality(LHEInCone(jet)) # 1 THEN jet.flavour["Physics"] = 0
      ELSE LET initial == LHEpartonArray.items[CHOOSE k \in LHEInCone(jet) : TRUE]
               reset   == \E c \in ContaminationSet(jet) :
                            Abs(c.PID) # Abs(initial.PID) /\ ~MotherIs(c, initial)
           IN jet.flavour["Physics"] = IF reset THEN 0 ELSE Abs(initial.PID)

\* the code of a parton for the default flavour: the gluon counts as 0
DefaultCode(parton) == IF Abs(parton.PID) = 21 THEN 0 ELSE Abs(parton.PID)

\* C19: flavourDefault is the largest |PID| of the filtered partons in the cone,
\* the gluon counting as 0, a final 0 being reported as 21, and 0 when no
\* filtered parton lies in the cone; it is determined by the partons of the
\* event and the jet alone.
C19_DefaultIsMaxPID ==
  \A jet \in ProcessedJets :
    jet.flavour["Default"] =
      IF ConePartons(jet) = {} THEN 0
      ELSE LET codeMax == MaxOf({ DefaultCode(p) : p \in ConePartons(jet) })
           IN IF codeMax = 0 THEN 21 ELSE codeMax

\* C20: a parton one of whose recorded daughters, D1 or D2, is a quark (1..5) or
\* a gluon is skipped, whatever the flavours of D1 and D2: a jet all of whose
\* cone partons have such a daughter sets none of Nearest2, HighestPt,
\* Heaviest, Algo.
C20_PartonWithPartonDaughterSkipped ==
  \A jet \in ProcessedJets :
    (\A p \in ConePartons(jet) : HasPartonDaughter(p)) => AlgoFieldsUnset(jet)

\* the hits of one (etaBin, phiBin) occupy consecutive positions of fTowerHits
HitsContiguous ==
  \A i, j, k \in DOMAIN fTowerHits :
    (i < j /\ j < k /\ HitEtaPhi(fTowerHits[i]) = HitEtaPhi(fTowerHits[k]))
      => HitEtaPhi(fTowerHits[j]) = HitEtaPhi(fTowerHits[i])

IsTrackHit(h) == BitAnd(HitFlags(h), 1) = 1

\* C21 as stated: after the sort the hits of the same (etaBin, phiBin) are
\* contiguous, and within each tower every track hit comes before every
\* particle hit, whatever the PID of the particle.
C21_TracksBeforeParticles ==
  CaloBinned =>
    /\ HitsContiguous
    /\ \A i, j \in DOMAIN fTowerHits :
         (/\ HitEtaPhi(fTowerHits[i]) = HitEtaPhi(fTowerHits[j])
          /\ IsTrackHit(fTowerHits[i])
          /\ ~IsTrackHit(fTowerHits[j])) => i < j

\* C21 (amended): after the sort the hits of the same (etaBin, phiBin) are
\* contiguous, and within each tower the hits are in the order of their flags:
\* the hits of the particles that are neither electrons nor photons (flags 0)
\* first, then the track hits (flags 1), then the hits of the electrons and
\* photons (flags 2); hits of equal flags are in the order of their index.
C21_HitsOrderedByFlags ==
  CaloBinned =>
    /\ HitsContiguous
    /\ \A i, j \in DOMAIN fTowerHits :
         (i < j /\ HitEtaPhi(fTowerHits[i]) = HitEtaPhi(fTowerHits[j])) =>
           \/ HitFlags(fTowerHits[i]) < HitFlags(fTowerHits[j])
           \/ /\ HitFlags(fTowerHits[i]) = HitFlags(fTowerHits[j])
              /\ HitNumber(fTowerHits[i]) < HitNumber(fTowerHits[j])
    /\ \A i \in DOMAIN fTowerHits :
         HitFlags(fTowerHits[i]) =
           IF \E n \in 0..(Len(fTrackInputArray) - 1) : fTowerHits[i] \in TrackHitsOf(n)
           THEN 1
           ELSE IF Abs(At(fParticleInputArray, HitNumber(fTowerHits[i])).PID) \in {11, 22}
                THEN 2 ELSE 0

\* one tower received, in this order, the hit of a particle that is neither an
\* electron nor a photon, the hit of a track and the hit of a photon or electron
C21_Witness ==
  /\ CaloBinned
  /\ \E i \in DOMAIN fTowerHits :
       /\ i + 2 \in DOMAIN fTowerHits
       /\ HitEtaPhi(fTowerHits[i]) = HitEtaPhi(fTowerHits[i + 2])
       /\ HitFlags(fTowerHits[i]) = 0
       /\ HitFlags(fTowerHits[i + 1]) = 1
       /\ HitFlags(fTowerHits[i + 2]) = 2

(***************************************************************************)
(* Calorimeter: packing and decoding of one hit word                       *)
(***************************************************************************)
\* the hits a Process can pack: bin numbers, the kind of the object, and its
\* position in its input array, below and above 2^24
HitSourceVals ==
  [ etaBin  : {1, 2, 300},
    phiBin  : {1, 3, 300},
    isTrack : BOOLEAN,
    pdgCode : {11, 22, 211},
    number  : {0, 1, Pow2(24) - 1, Pow2(24), Pow2(24) + 1, Pow2(25) + 5} ]

NoHit == [flags |-> 0, number |-> 0, phiBin |-> 0, etaBin |-> 0]

\* lines 227-230 and 272-276: flags and towerHit
HitPack ==
  /\ hitPc = "pack"
  /\ hitWord' = HitWord(hitSource.etaBin, hitSource.phiBin,
                         HitFlagsOf(hitSource.isTrack, hitSource.pdgCode),
                         hitSource.number)
  /\ hitPc' = "scan"
  /\ UNCHANGED << hitSource, hitDecoded >>
  /\ UNCHANGED notHitVars

\* lines 289-292 and 303-304: the fields the scan loop takes from the word
HitDecode ==
  /\ hitPc = "scan"
  /\ hitDecoded' = [flags  |-> HitFlags(hitWord),
                    number |-> HitNumber(hitWord),
                    phiBin |-> HitPhiBin(hitWord),
                    etaBin |-> HitEtaBin(hitWord)]
  /\ hitPc' = "decoded"
  /\ UNCHANGED << hitSource, hitWord >>
  /\ UNCHANGED notHitVars

\* a track or particle about to be given its hit
HitInit ==
  /\ hitPc = "pack"
  /\ hitSource \in HitSourceVals
  /\ hitWord = << 0, 0 >>
  /\ hitDecoded = NoHit

\* no hit is followed
HitRest ==
  /\ hitPc = "off"
  /\ hitSource = [etaBin |-> 1, phiBin |-> 1, isTrack |-> TRUE, pdgCode |-> 211,
                  number |-> 0]
  /\ hitWord = << 0, 0 >>
  /\ hitDecoded = NoHit

HitNext == HitPack \/ HitDecode

(***************************************************************************)
(* Calorimeter: properties of the hit word                                 *)
(***************************************************************************)
\* the flags the hit was packed with: 1 for a track, 2 for an electron or
\* photon particle, 0 for any other particle
PackedFlags ==
  IF hitSource.isTrack THEN 1
  ELSE IF hitSource.pdgCode \in {11, 22} THEN 2 ELSE 0

\* the bin numbers are recovered, and below 2^24 the word is the sum of the
\* shifted fields and the flags and the index are recovered as well
HitRoundTrip ==
  /\ hitDecoded.etaBin = hitSource.etaBin
  /\ hitDecoded.phiBin = hitSource.phiBin
  /\ hitSource.number < Pow2(24) =>
       /\ hitWord = << hitSource.etaBin * Pow2(16) + hitSource.phiBin,
                        PackedFlags * Pow2(24) + hitSource.number >>
       /\ hitDecoded.flags = PackedFlags
       /\ hitDecoded.number = hitSource.number

\* C22 as stated: the decoding recovers etaBin, phiBin, flags and index for
\* every index in 0 .. 2^24-1; for an index >= 2^24 the index bits spill into
\* the flags field, and the decoded flags and the decoded index both differ
\* from the packed ones.
C22_SpillChangesFlagsAndIndex ==
  hitPc = "decoded" =>
    /\ HitRoundTrip
    /\ hitSource.number >= Pow2(24) =>
         /\ hitDecoded.flags # PackedFlags
         /\ hitDecoded.number # hitSource.number

\* C22 (amended): the decoding recovers etaBin, phiBin, flags and index for
\* every index in 0 .. 2^24-1; for an index >= 2^24 the decoded index is the
\* index modulo 2^24, which differs from the packed one, and the decoded flags
\* are the packed flags OR-ed with bits 24..31 of the index, which differ from
\* the packed flags unless those bits are already set in them.
C22_SpillOrsIntoFlags ==
  hitPc = "decoded" =>
    /\ HitRoundTrip
    /\ hitSource.number >= Pow2(24) =>
         /\ hitDecoded.number = hitSource.number % Pow2(24)
         /\ hitDecoded.number # hitSource.number
         /\ hitDecoded.flags = BitOr(PackedFlags, (hitSource.number \div Pow2(24)) % 256)

\* a particle with index 2^24 or more was decoded as a track hit
C22_Witness ==
  /\ hitPc = "decoded"
  /\ hitSource.number >= Pow2(24)
  /\ ~hitSource.isTrack
  /\ BitAnd(hitDecoded.flags, 1) = 1

(***************************************************************************)
(* Calorimeter: the energy-flow tracks                                     *)
(***************************************************************************)
\* how many entries of the sequence s are x
Count(s, x) == Cardinality({ i \in DOMAIN s : s[i] = x })

\* the track at 0-based position number of the event lies in a bin of the grid
TrackInGrid(number) ==
  TrackHit(fEtaBins, fPhiBins, At(fTrackInputArray, number), number) # << >>

\* the 0-based positions of the tracks of the event
TrackNumbers == 0..(Len(fTrackInputArray) - 1)

\* eflowTracks holds tracks of this event only, none outside the grid and none
\* twice; once the event is finished it holds every track inside the grid
EFlowTracksOfEvent ==
  /\ SeqRange(fEFlowTrackOutputArray) \subseteq TrackNumbers
  /\ \A number \in TrackNumbers :
       /\ Count(fEFlowTrackOutputArray, number) <= 1
       /\ ~TrackInGrid(number) => Count(fEFlowTrackOutputArray, number) = 0
       /\ (caloPc = "done" /\ TrackInGrid(number)) =>
            Count(fEFlowTrackOutputArray, number) = 1

\* C23: every track of the track input array that maps into a bin of the grid
\* is emitted to eflowTracks exactly once per event, also when its tower holds
\* no particle hit or has smeared energy 0; tracks outside the grid and tracks
\* of an earlier event are never emitted; the scan leaves the tracks as they
\* were handed in.
C23_TracksEmittedOnce ==
  /\ [](caloPc \in {"scan", "done"} => EFlowTracksOfEvent)
  /\ [][caloPc = "scan" => fTrackInputArray' = fTrackInputArray]_vars

\* the second event is finished: its only track was alone in a tower whose
\* energy is 0, the tower was not emitted and the track was
C23_Witness ==
  /\ caloPc = "done"
  /\ caloEvent = 2
  /\ Len(fTrackInputArray) = 1
  /\ fParticleInputArray = << >>
  /\ fTowerOutputArray = << >>
  /\ fEFlowTrackOutputArray = << 0 >>

(***************************************************************************)
(* Calorimeter: the photons                                                *)
(***************************************************************************)
\* the bin << etaBin, phiBin >> of a position of the grid
BinOf(c) ==
  << EtaBinOf(fEtaBins, c.Eta), PhiBinOf(fPhiBins, EtaBinOf(fEtaBins, c.Eta), c.Phi) >>

\* the bin of an emitted tower: the bin of the particles it is composed of
TowerBin(t) == BinOf(At(fParticleInputArray, t.comp[1]))

\* the tower took the hit of an electron or photon particle
HasPhotonHit(t) ==
  \E k \in DOMAIN t.comp : Abs(At(fParticleInputArray, t.comp[k]).PID) \in {11, 22}

\* the tower took the hit of a track
HasTrackHit(t) ==
  \E number \in TrackNumbers :
    TrackInGrid(number) /\ BinOf(At(fTrackInputArray, number)) = TowerBin(t)

\* C24: a finalized tower is in photons if and only if it took at least one
\* electron/photon particle hit and no track hit and its smeared energy is
\* positive; every Candidate of photons is the very Candidate that is in towers.
C24_PhotonsAreTrackFreeTowers ==
  /\ \A p \in SeqRange(fPhotonOutputArray) :
       /\ p \in SeqRange(fTowerOutputArray)
       /\ p.E > 0
       /\ Count(fPhotonOutputArray, p) = 1
  /\ \A t \in SeqRange(fTowerOutputArray) :
       t \in SeqRange(fPhotonOutputArray) <=> (HasPhotonHit(t) /\ ~HasTrackHit(t))

\* a finished event with a photon, and with a tower that took an electron or
\* photon particle and a track and is therefore in towers only
C24_Witness ==
  /\ caloPc = "done"
  /\ fPhotonOutputArray # << >>
  /\ \E t \in SeqRange(fTowerOutputArray) :
       HasPhotonHit(t) /\ HasTrackHit(t) /\ t \notin SeqRange(fPhotonOutputArray)

(***************************************************************************)
(* Calorimeter: the energy-flow towers                                     *)
(***************************************************************************)
\* the tracks that fell into the bin of the tower t
TracksOfTower(t) ==
  { number \in TrackNumbers :
      TrackInGrid(number) /\ BinOf(At(fTrackInputArray, number)) = TowerBin(t) }

\* E times the fraction k (1 ECAL, 2 HCAL) summed over a set of track numbers
RECURSIVE TrackEnergy(_, _)
TrackEnergy(numbers, k) ==
  IF numbers = {} THEN 0
  ELSE LET number == CHOOSE n \in numbers : TRUE
           track  == At(fTrackInputArray, number)
       IN track.E * FractionOf(Abs(track.PID))[k] + TrackEnergy(numbers \ {number}, k)

\* E times the fraction k summed over the particles of a composition
RECURSIVE ParticleEnergy(_, _)
ParticleEnergy(comp, k) ==
  IF comp = << >> THEN 0
  ELSE LET particle == At(fParticleInputArray, Head(comp))
       IN particle.E * FractionOf(Abs(particle.PID))[k] + ParticleEnergy(Tail(comp), k)

Max0(x) == IF x < 0 THEN 0 ELSE x

\* the two residuals of the tower t
EemRest(t) == Max0(t.Eem - TrackEnergy(TracksOfTower(t), 1))
EhadRest(t) == Max0(t.Ehad - TrackEnergy(TracksOfTower(t), 2))

\* the energy-flow towers cloned from the tower t
ClonesOf(t) == { i \in DOMAIN fEFlowTowerOutputArray : fEFlowTowerOutputArray[i].cloneOf = t.id }

\* C25: for every finalized tower the residuals are Eem' = max(0, ecalSmeared -
\* trackECAL) and Ehad' = max(0, hcalSmeared - trackHCAL), the track sums taken
\* over the track hits of that tower only; a clone with E = Eem' + Ehad' is in
\* eflowTowers if and only if Eem' + Ehad' > 0, at most one per tower, and the
\* tower in towers keeps its unreduced Eem, Ehad and energy.
C25_ResidualsCloned ==
  /\ \A i \in DOMAIN fEFlowTowerOutputArray :
       \E t \in SeqRange(fTowerOutputArray) : t.id = fEFlowTowerOutputArray[i].cloneOf
  /\ \A t \in SeqRange(fTowerOutputArray) :
       LET eemRest  == EemRest(t)
           ehadRest == EhadRest(t)
           clones   == ClonesOf(t)
       IN /\ t.Eem \in LogNormal(ParticleEnergy(t.comp, 1), sigmaCfg)
          /\ t.Ehad \in LogNormal(ParticleEnergy(t.comp, 2), sigmaCfg)
          /\ t.E = t.Eem + t.Ehad
          /\ Cardinality(clones) = (IF eemRest + ehadRest > 0 THEN 1 ELSE 0)
          /\ \A i \in clones :
               /\ fEFlowTowerOutputArray[i].Eem = eemRest
               /\ fEFlowTowerOutputArray[i].Ehad = ehadRest
               /\ fEFlowTowerOutputArray[i].E = eemRest + ehadRest

\* a finished event with a tower whose tracks exceed its ECAL energy: its clone
\* keeps the HCAL residual alone, and the tower keeps its full energy
C25_Witness ==
  /\ caloPc = "done"
  /\ \E t \in SeqRange(fTowerOutputArray) :
       /\ t.Eem > 0
       /\ TrackEnergy(TracksOfTower(t), 1) > t.Eem
       /\ \E i \in ClonesOf(t) : /\ fEFlowTowerOutputArray[i].Eem = 0
                                 /\ fEFlowTowerOutputArray[i].E = t.Ehad
                                 /\ fEFlowTowerOutputArray[i].E < t.E

(***************************************************************************)
(* Calorimeter: the current tower of the scan                              *)
(***************************************************************************)
\* C28: in the scan loop fTower is non-null whenever a hit is processed: every
\* hit has etaBin >= 1, so the first hit of an event differs from the initial
\* towerEtaPhi = 0 and starts a tower, and PID and AddCandidate are never
\* applied to a null tower; with an empty hit vector nothing is finalized or
\* emitted.
C28_TowerNeverNull ==
  /\ ~nullDeref
  /\ \A i \in DOMAIN fTowerHits : HitEtaBin(fTowerHits[i]) >= 1 /\ HitEtaPhi(fTowerHits[i]) # 0
  /\ (caloPc = "scan" /\ itTowerHits > 1) => fTower.id # 0
  /\ (caloPc \in {"scan", "done"} /\ fTowerHits = << >>) =>
       /\ fTower = NoTower
       /\ caloNew = 0
       /\ fTowerOutputArray = << >>
       /\ fPhotonOutputArray = << >>
       /\ fEFlowTrackOutputArray = << >>
       /\ fEFlowTowerOutputArray = << >>

\* the first hit of the second event, a particle hit, has been processed: it
\* started a tower and entered its composition
C28_Witness ==
  /\ caloPc = "scan"
  /\ caloEvent = 2
  /\ itTowerHits = 2
  /\ fTower.id # 0
  /\ fTower.comp = << 0 >>

(***************************************************************************)
(* Calorimeter: one tower per bin                                          *)
(***************************************************************************)
\* the bins that received a hit in this event
HitBins == { HitEtaPhi(fTowerHits[i]) : i \in DOMAIN fTowerHits }

\* the 0-based positions of the particles of the event that left a hit
DepositingParticles ==
  { number \in 0..(Len(fParticleInputArray) - 1) :
      ParticleHit(fEtaBins, fPhiBins, At(fParticleInputArray, number), number) # << >> }

\* the entries of towers that have the particle in their composition, each
\* counted as often as it has it
TowersOfParticle(number) ==
  { << i, k >> \in (DOMAIN fTowerOutputArray) \X (1..(MaxParticles + 1)) :
      k \in DOMAIN fTowerOutputArray[i].comp /\ fTowerOutputArray[i].comp[k] = number }

\* C29: per event, Process creates exactly one tower Candidate for each
\* distinct (etaBin, phiBin) that received a hit and finalizes it once: towers
\* has at most one entry per bin, and each in-grid particle with a non-zero
\* energy fraction is in the composition of exactly one tower.
C29_OneTowerPerBin ==
  /\ caloPc \in {"scan", "done"} =>
       /\ \A i, j \in DOMAIN fTowerOutputArray :
            i # j => /\ fTowerOutputArray[i].id # fTowerOutputArray[j].id
                     /\ TowerBin(fTowerOutputArray[i]) # TowerBin(fTowerOutputArray[j])
       /\ \A number \in DepositingParticles : Cardinality(TowersOfParticle(number)) <= 1
  /\ caloPc = "done" =>
       /\ caloNew - Len(fEFlowTowerOutputArray) = Cardinality(HitBins)
       /\ \A number \in DepositingParticles : Cardinality(TowersOfParticle(number)) = 1

\* a finished event with hits in two bins, three of them in one bin: two
\* particles and a track that share one tower
C29_Witness ==
  /\ caloPc = "done"
  /\ Cardinality(HitBins) = 2
  /\ Len(fTowerHits) >= 4
  /\ \E t \in SeqRange(fTowerOutputArray) : Len(t.comp) = 2 /\ HasTrackHit(t)

(***************************************************************************)
(* FastJetFinder: the rho array                                            *)
(***************************************************************************)
\* the (eta1, eta2) ranges the card configures
ConfiguredRanges ==
  [ i \in 1..(Len(RhoEtaRange) \div 2) |-> << RhoEtaRange[2 * i - 1], RhoEtaRange[2 * i] >> ]

\* C26: when rho computation is configured, Process emits exactly one
\* Candidate to the rho array for each configured (eta1, eta2) range, with
\* Edges[0] = eta1 and Edges[1] = eta2, for any list of ranges (two ranges with
\* the same eta1 included) and any area-definition id.
C26_OneRhoPerRange ==
  (jetPc \in {"export", "done"} /\ fComputeRho) =>
    /\ Len(fRhoOutputArray) = Len(ConfiguredRanges)
    /\ \A i \in DOMAIN ConfiguredRanges :
         Cardinality({ k \in DOMAIN fRhoOutputArray :
                         fRhoOutputArray[k].Edges = ConfiguredRanges[i] }) = 1

(***************************************************************************)
(* BTagging: the early return of Process                                   *)
(***************************************************************************)
\* some element of the array passes the classifier
SomePasses(array, classifier) ==
  \E i \in DOMAIN array : GetCategory(classifier, array[i]) = 0

CountedEvents == { i \in 1..readerPos : i > commandLine.startEvent }

\* those of them the preselection rejected
RejectedEvents ==
  { i \in CountedEvents :
      ~LHEEventPreselection(lheFile[i], commandLine.Mjj_cut,
                            commandLine.skimFullyHadronic, i).accept }

\* C30: after every iteration of the driver loop eventCounter equals the number
\* of Fill calls plus the number of events the preselection rejected,
\* skippedCounter does not exceed the number of rejected events, errorCounter
\* does not exceed the number of Fill calls, with nEvent # -1 the number of
\* Fill calls does not exceed nEvent, and the first startEvent events read are
\* neither processed nor counted.
C30_CountersConsistent ==
  /\ drvPc = "loop" =>
       /\ eventCounter = treeEntries + Cardinality(RejectedEvents)
       /\ skippedCounter <= Cardinality(RejectedEvents)
       /\ errorCounter <= treeEntries
       /\ eventCounter = Cardinality(CountedEvents)
       /\ startCounter = readerPos - Cardinality(CountedEvents)
  /\ commandLine.nEvent # -1 => treeEntries <= commandLine.nEvent
  /\ drvPc \in {"preselect", "generate", "convert", "process", "fill", "clear"} =>
       readerPos > commandLine.startEvent

\* the loop is back at its head after an event was passed over for startEvent,
\* an event failed in the generator and was written, and an event was rejected
\* and skipped in the generator
C30_Witness ==
  /\ drvPc = "loop"
  /\ startCounter >= 1
  /\ treeEntries >= 1
  /\ errorCounter >= 1
  /\ Cardinality(RejectedEvents) >= 1
  /\ skippedCounter >= 1

(***************************************************************************)
(* Specifications                                                          *)
(***************************************************************************)
CaloRest ==
  /\ caloPc = "off"
  /\ fEtaBins = << >>
  /\ fPhiBins = << >>
  /\ sigmaCfg = FALSE
  /\ fTrackInputArray = << >>
  /\ fParticleInputArray = << >>
  /\ fTowerHits = << >>
  /\ fTrackECalFractions = << >>
  /\ fTrackHCalFractions = << >>
  /\ fTowerECalFractions = << >>
  /\ fTowerHCalFractions = << >>
  /\ fParticlePDGId = << >>
  /\ itTowerHits = 1
  /\ towerEtaPhi = 0
  /\ fTower = NoTower
  /\ fTowerEdges = << 0, 0, 0, 0 >>
  /\ fTowerECalEnergy = 0
  /\ fTowerHCalEnergy = 0
  /\ fTrackECalEnergy = 0
  /\ fTrackHCalEnergy = 0
  /\ fTowerTrackHits = 0
  /\ fTowerPhotonHits = 0
  /\ fTowerTrackArray = << >>
  /\ fTowerOutputArray = << >>
  /\ fPhotonOutputArray = << >>
  /\ fEFlowTrackOutputArray = << >>
  /\ fEFlowTowerOutputArray = << >>
  /\ caloNew = 0
  /\ nullDeref = FALSE
  /\ caloEvent = 1

InitCalo == CaloInit /\ JetRest /\ BTagRest /\ DrvRest /\ HitRest

SpecCalo == InitCalo /\ [][CaloNext]_vars

InitJet == JetInit /\ CaloRest /\ BTagRest /\ DrvRest /\ HitRest

SpecJet == InitJet /\ [][JetNext]_vars

InitBTag == BTagInit /\ CaloRest /\ JetRest /\ DrvRest /\ HitRest

SpecBTag == InitBTag /\ [][BTagNext]_vars

InitBTagRepeat == BTagInitOne /\ CaloRest /\ JetRest /\ DrvRest /\ HitRest

SpecBTagRepeat == InitBTagRepeat /\ [][BTagRepeatNext]_vars

InitDriver == DrvInit /\ CaloRest /\ JetRest /\ BTagRest /\ HitRest

SpecDriver == InitDriver /\ [][DrvNext]_vars

InitFlavour == CaloRest /\ JetRest /\ FlavourInit /\ DrvRest /\ HitRest
SpecFlavour == InitFlavour /\ [][FlavourNext]_vars

InitHit == HitInit /\ CaloRest /\ JetRest /\ BTagRest /\ DrvRest
SpecHit == InitHit /\ [][HitNext]_vars
InitRho == CaloRest /\ RhoInit /\ BTagRest /\ DrvRest /\ HitRest
SpecRho == InitRho /\ [][JetNext]_vars
=============================================================================
